---- MODULE Spec2Model ----
(***************************************************************************)
(* A model of the Smithy front end: the symbol index (SmithyIndex) and the *)
(* semantic resolver (SmithyParser) that turn the typed syntax tree of one *)
(* IDL document into a service model and a list of violations.             *)
(*                                                                         *)
(* A document is held at the level of the typed syntax facade: the list of *)
(* statements of its shape section, each a record of the children the      *)
(* facade's accessors return.  A node's text is the slice of the document  *)
(* the node spans, held as a sequence of one-character strings; a node's   *)
(* range is held as the node's place in the document (Loc).                *)
(*                                                                         *)
(* The tree builder (parse of src/ast/parser.ts) and the child accessors   *)
(* of the facade (SyntaxNode) are modelled beside the resolver: the        *)
(* builder by the records the grammar engine hands to its callbacks, the   *)
(* accessors by the children array of one tree node.                       *)
(***************************************************************************)
EXTENDS Integers, Sequences, FiniteSets, TLC

VARIABLES
    doc,         \* root.shapeSection.shapes: the statements of the document
    pc,          \* where the run is: "run", "done", "threw"; "fn", "returned"
    cursor,      \* the next statement of the indexing loop
    index,       \* SmithyIndex: the ten tables, insertion-ordered maps
    violations,  \* SmithyParser.violations
    interfaces,  \* Array.from(emitInterfaces()) so far
    types,       \* Array.from(emitTypes()) so far
    enums,       \* Array.from(emitEnums()) so far
    result,      \* what smithyParser returned
    call,        \* one application of a pure function: its name, input, output
    previous,    \* what the call of smithyParser before this one returned
    records,     \* the engine's records translated so far, per call of parse
    callbacks,   \* parser.ast.callbacks: module-level, one entry per rule
    stack,       \* the local stack of each call of parse
    roots,       \* the local roots of each call of parse
    nodes,       \* the node objects the callbacks have linked, by identity
    active,      \* the call of parse that is executing, 0 when none is
    trees        \* what each call of parse returned

\* The state of the tree builder (src/ast/parser.ts).
builderVars == <<records, callbacks, stack, roots, nodes, active, trees>>

vars == <<doc, pc, cursor, index, violations, interfaces, types, enums, result, call,
          previous, builderVars>>

-----------------------------------------------------------------------------
(* Strings: String.prototype.slice, endsWith, toLowerCase, parseInt.       *)

UpperAlpha ==
    <<"A","B","C","D","E","F","G","H","I","J","K","L","M",
      "N","O","P","Q","R","S","T","U","V","W","X","Y","Z">>

LowerAlpha ==
    <<"a","b","c","d","e","f","g","h","i","j","k","l","m",
      "n","o","p","q","r","s","t","u","v","w","x","y","z">>

Digits == <<"0","1","2","3","4","5","6","7","8","9">>

DQUOTE == "\""

LowerChar(c) ==
    IF \E n \in 1..Len(UpperAlpha) : UpperAlpha[n] = c
    THEN LowerAlpha[CHOOSE n \in 1..Len(UpperAlpha) : UpperAlpha[n] = c]
    ELSE c

toLowerCase(t) == [n \in 1..Len(t) |-> LowerChar(t[n])]

endsWith(t, suffix) ==
    /\ Len(t) >= Len(suffix)
    /\ SubSeq(t, Len(t) - Len(suffix) + 1, Len(t)) = suffix

Max(a, b) == IF a >= b THEN a ELSE b

Min(a, b) == IF a <= b THEN a ELSE b

\* t.slice(start, end): zero-based, end exclusive, a negative bound counts
\* from the end of the string.
slice(t, start, end) ==
    LET from == IF start < 0 THEN Max(Len(t) + start, 0) ELSE Min(start, Len(t))
        to   == IF end < 0 THEN Max(Len(t) + end, 0) ELSE Min(end, Len(t))
    IN  SubSeq(t, from + 1, to)

IsDigit(c) == \E n \in 1..Len(Digits) : Digits[n] = c

DigitValue(c) == (CHOOSE n \in 1..Len(Digits) : Digits[n] = c) - 1

RECURSIVE DigitsPrefixValue(_, _, _)
\* The value of the longest run of digits of t starting at place n, given the
\* value acc of the digits before n.
DigitsPrefixValue(t, n, acc) ==
    IF n <= Len(t) /\ IsDigit(t[n])
    THEN DigitsPrefixValue(t, n + 1, acc * 10 + DigitValue(t[n]))
    ELSE acc

\* parseInt(t, 10): an optional sign, then the longest run of digits; NaN when
\* there is no digit there.
parseInt(t) ==
    LET neg   == Len(t) >= 1 /\ t[1] = "-"
        first == IF Len(t) >= 1 /\ t[1] \in {"-", "+"} THEN 2 ELSE 1
    IN  IF first <= Len(t) /\ IsDigit(t[first])
        THEN [nan |-> FALSE,
              n   |-> IF neg THEN 0 - DigitsPrefixValue(t, first, 0)
                             ELSE DigitsPrefixValue(t, first, 0)]
        ELSE [nan |-> TRUE, n |-> 0]

\* NumberNode.value for a literal without fraction or exponent.
parseFloat(t) == parseInt(t)

-----------------------------------------------------------------------------
(* Syntax nodes, as the facade presents them.                              *)

\* Map.get of an absent key, or an absent optional child.
Undefined == 0

\* A node's range: the statement it belongs to and its place in it.
Loc(s, part, a, b) ==
    [stmt |-> s, part |-> part, a |-> a, b |-> b, kvp |-> 0, sub |-> "node"]

\* The range of the k-th key/value pair of the structured body at loc.
KvpLoc(loc, k) == [loc EXCEPT !.kvp = k, !.sub = "kvp"]

\* The range of the value of that pair.
KvpValueLoc(loc, k) == [loc EXCEPT !.kvp = k, !.sub = "value"]

\* The range of the body of the trait at loc.
BodyLoc(loc) == [loc EXCEPT !.sub = "body"]

NoValue == [kind |-> "undefined", text |-> <<>>, items |-> <<>>, kvps |-> <<>>]

\* NodeStringValue, its ShapeId alternative: the text is the identifier.
ShapeIdValue(text) ==
    [kind |-> "NodeStringValue", text |-> text, items |-> <<>>, kvps |-> <<>>]

\* NodeStringValue, its QuotedText alternative: the node spans both quotes.
QuotedTextValue(content) ==
    [kind |-> "NodeStringValue", text |-> <<DQUOTE>> \o content \o <<DQUOTE>>,
     items |-> <<>>, kvps |-> <<>>]

NumberValue(text) ==
    [kind |-> "Number", text |-> text, items |-> <<>>, kvps |-> <<>>]

NodeArrayValue(items) ==
    [kind |-> "NodeArray", text |-> <<>>, items |-> items, kvps |-> <<>>]

\* TraitBody, its TraitStructure alternative: a list of key/value pairs.
TraitStructure(kvps) ==
    [kind |-> "Array", text |-> <<>>, items |-> <<>>, kvps |-> kvps]

Kvp(key, value) == [key |-> key, value |-> value]

Trait(id, body) == [id |-> id, body |-> body]

ExplicitShapeMember(traits, name, shapeId) ==
    [traits |-> traits, kind |-> "ExplicitShapeMember", name |-> name,
     shapeId |-> shapeId]

ElidedShapeMember(traits, identifier) ==
    [traits |-> traits, kind |-> "ElidedShapeMember", name |-> identifier,
     shapeId |-> <<>>]

NoRef == [kind |-> "undefined", text |-> <<>>]

ShapeIdRef(text) == [kind |-> "ShapeId", text |-> text]

InlineRef == [kind |-> "InlineAggregateShape", text |-> <<>>]

Statement(traits, kind, typeName, name, members, properties, input, output) ==
    [traits |-> traits, kind |-> kind, typeName |-> typeName, name |-> name,
     members |-> members, properties |-> properties,
     input |-> input, output |-> output]

-----------------------------------------------------------------------------
(* The string literals of the program, as sequences of characters.         *)

S_blob == <<"b","l","o","b">>

S_boolean == <<"b","o","o","l","e","a","n">>

S_document == <<"d","o","c","u","m","e","n","t">>

S_string == <<"s","t","r","i","n","g">>

S_byte == <<"b","y","t","e">>

S_short == <<"s","h","o","r","t">>

S_integer == <<"i","n","t","e","g","e","r">>

S_long == <<"l","o","n","g">>

S_float == <<"f","l","o","a","t">>

S_double == <<"d","o","u","b","l","e">>

S_bigInteger == <<"b","i","g","I","n","t","e","g","e","r">>

S_bigDecimal == <<"b","i","g","D","e","c","i","m","a","l">>

S_timestamp == <<"t","i","m","e","s","t","a","m","p">>

S_Boolean == <<"B","o","o","l","e","a","n">>

S_String == <<"S","t","r","i","n","g">>

S_Integer == <<"I","n","t","e","g","e","r">>

S_Long == <<"L","o","n","g">>

S_Float == <<"F","l","o","a","t">>

S_Short == <<"S","h","o","r","t">>

S_Double == <<"D","o","u","b","l","e">>

S_Byte == <<"B","y","t","e">>

S_BigInteger == <<"B","i","g","I","n","t","e","g","e","r">>

S_BigDecimal == <<"B","i","g","D","e","c","i","m","a","l">>

S_Timestamp == <<"T","i","m","e","s","t","a","m","p">>

S_Blob == <<"B","l","o","b">>

S_binary == <<"b","i","n","a","r","y">>

S_number == <<"n","u","m","b","e","r">>

S_date_time == <<"d","a","t","e","-","t","i","m","e">>

S_unknown == <<"u","n","k","n","o","w","n">>

S_structure == <<"s","t","r","u","c","t","u","r","e">>

S_list == <<"l","i","s","t">>

S_union == <<"u","n","i","o","n">>

S_map == <<"m","a","p">>

S_service == <<"s","e","r","v","i","c","e">>

S_resource == <<"r","e","s","o","u","r","c","e">>

S_GET == <<"G","E","T">>

S_POST == <<"P","O","S","T">>

S_PUT == <<"P","U","T">>

S_PATCH == <<"P","A","T","C","H">>

S_DELETE == <<"D","E","L","E","T","E">>

S_HEAD == <<"H","E","A","D">>

S_OPTIONS == <<"O","P","T","I","O","N","S">>

S_TRACE == <<"T","R","A","C","E">>

S_get == <<"g","e","t">>

S_post == <<"p","o","s","t">>

S_put == <<"p","u","t">>

S_patch == <<"p","a","t","c","h">>

S_delete == <<"d","e","l","e","t","e">>

S_head == <<"h","e","a","d">>

S_options == <<"o","p","t","i","o","n","s">>

S_trace == <<"t","r","a","c","e">>

S_required == <<"r","e","q","u","i","r","e","d">>

S_length == <<"l","e","n","g","t","h">>

S_pattern == <<"p","a","t","t","e","r","n">>

S_range == <<"r","a","n","g","e">>

S_uniqueItems == <<"u","n","i","q","u","e","I","t","e","m","s">>

S_http == <<"h","t","t","p">>

S_deprecated == <<"d","e","p","r","e","c","a","t","e","d">>

S_min == <<"m","i","n">>

S_max == <<"m","a","x">>

S_method == <<"m","e","t","h","o","d">>

S_uri == <<"u","r","i">>

S_code == <<"c","o","d","e">>

S_operations == <<"o","p","e","r","a","t","i","o","n","s">>

-----------------------------------------------------------------------------
(* SmithyIndex: insertion-ordered maps from identifier to statement.       *)

MapHas(m, k) == \E n \in 1..Len(m) : m[n].key = k

\* Map.set, were the value of an existing key kept.
MapSet_KeepFirst(m, k, v) ==
    IF MapHas(m, k) THEN m ELSE Append(m, [key |-> k, value |-> v])

\* Map.set, were an existing key moved behind the others.
MapSet_MoveToEnd(m, k, v) ==
    Append(SelectSeq(m, LAMBDA e : e.key # k), [key |-> k, value |-> v])

\* Map.set: a new key is appended; an existing key keeps its place and takes
\* the new value.
MapSet(m, k, v) ==
    IF MapHas(m, k)
    THEN [n \in 1..Len(m) |->
            IF m[n].key = k THEN [key |-> k, value |-> v] ELSE m[n]]
    ELSE Append(m, [key |-> k, value |-> v])

MapGet(m, k) ==
    IF MapHas(m, k)
    THEN m[CHOOSE n \in 1..Len(m) : m[n].key = k].value
    ELSE Undefined

\* Map.values(): the values in insertion order.
MapValues(m) == [n \in 1..Len(m) |-> m[n].value]

EmptyIndex ==
    [traitsIndex |-> <<>>, operationsIndex |-> <<>>, servicesIndex |-> <<>>,
     resourcesIndex |-> <<>>, simpleShapesIndex |-> <<>>,
     structuresIndex |-> <<>>, listsIndex |-> <<>>, unionsIndex |-> <<>>,
     mapsIndex |-> <<>>, enumsIndex |-> <<>>]

indexAggregateShape(idx, s, node) ==
    CASE node.typeName = S_structure ->
           [idx EXCEPT !.structuresIndex = MapSet(@, node.name, s)]
      [] node.typeName = S_list ->
           [idx EXCEPT !.listsIndex = MapSet(@, node.name, s)]
      [] node.typeName = S_union ->
           [idx EXCEPT !.unionsIndex = MapSet(@, node.name, s)]
      [] node.typeName = S_map ->
           [idx EXCEPT !.mapsIndex = MapSet(@, node.name, s)]
      [] OTHER -> idx

indexEntityShape(idx, s, node) ==
    CASE node.typeName = S_service ->
           [idx EXCEPT !.servicesIndex = MapSet(@, node.name, s)]
      [] node.typeName = S_resource ->
           [idx EXCEPT !.resourcesIndex = MapSet(@, node.name, s)]
      [] OTHER -> idx

\* A faulty indexShapeStatement that keeps the traits recorded first.
indexShapeStatement_FirstTraits(idx, s, node) ==
    LET withTraits == [idx EXCEPT !.traitsIndex = MapSet_KeepFirst(@, node.name, s)]
    IN  CASE node.kind = "AggregateShape" ->
               indexAggregateShape(withTraits, s, node)
          [] node.kind = "SimpleShape" ->
               [withTraits EXCEPT !.simpleShapesIndex = MapSet(@, node.name, s)]
          [] node.kind = "EnumShape" ->
               [withTraits EXCEPT !.enumsIndex = MapSet(@, node.name, s)]
          [] node.kind = "EntityShape" ->
               indexEntityShape(withTraits, s, node)
          [] node.kind = "OperationShape" ->
               [withTraits EXCEPT !.operationsIndex = MapSet(@, node.name, s)]
          [] OTHER -> withTraits

indexShapeStatement(idx, s, node) ==
    LET withTraits == [idx EXCEPT !.traitsIndex = MapSet(@, node.name, s)]
    IN  CASE node.kind = "AggregateShape" ->
               indexAggregateShape(withTraits, s, node)
          [] node.kind = "SimpleShape" ->
               [withTraits EXCEPT !.simpleShapesIndex = MapSet(@, node.name, s)]
          [] node.kind = "EnumShape" ->
               [withTraits EXCEPT !.enumsIndex = MapSet(@, node.name, s)]
          [] node.kind = "EntityShape" ->
               indexEntityShape(withTraits, s, node)
          [] node.kind = "OperationShape" ->
               [withTraits EXCEPT !.operationsIndex = MapSet(@, node.name, s)]
          [] OTHER -> withTraits

\* The loop of indexShapeSection, were apply statements indexed as well.
indexShape_ApplyIndexed(idx, s, node) == indexShapeStatement(idx, s, node)

\* One turn of indexShapeSection's loop: apply statements are passed over.
indexShape(idx, s, node) ==
    IF node.kind \in {"ApplyStatementBlock", "ApplyStatementSingular"}
    THEN idx
    ELSE indexShapeStatement(idx, s, node)

\* The trait nodes of statement s, each with its range.
StatementTraits(s) ==
    [t \in 1..Len(doc[s].traits) |->
        [node |-> doc[s].traits[t], loc |-> Loc(s, "trait", t, 0)]]

\* The trait nodes of a member, each with its range.
MemberTraits(ref) ==
    [t \in 1..Len(ref.node.traits) |->
        [node |-> ref.node.traits[t], loc |-> Loc(ref.s, "memberTrait", ref.m, t)]]

\* The members of aggregate shape s: ShapeMembersNode.from wraps every child.
ShapeMembers(s) ==
    [m \in 1..Len(doc[s].members) |-> [node |-> doc[s].members[m], s |-> s, m |-> m]]

\* SmithyIndex.traits(name)
traits(name) ==
    LET s == MapGet(index.traitsIndex, name)
    IN  IF s = Undefined THEN <<>> ELSE StatementTraits(s)

-----------------------------------------------------------------------------
(* SmithyParser: the resolver.  A method of the class is an operator whose *)
(* value holds what the method returns, the violations it pushes, in the   *)
(* order it pushes them, and whether it throws.                            *)

Violation(code, severity, range, text) ==
    [code |-> code, severity |-> severity, range |-> range, message |-> text]

RECURSIVE Flatten(_)
\* The concatenation of a sequence of sequences.
Flatten(seqs) == IF seqs = <<>> THEN <<>> ELSE Head(seqs) \o Flatten(Tail(seqs))

\* Array.prototype.find over key/value pairs: the first pair whose key has
\* this text, 0 when there is none.
FindKvp(kvps, key) ==
    IF \E k \in 1..Len(kvps) : kvps[k].key = key
    THEN CHOOSE k \in 1..Len(kvps) :
            /\ kvps[k].key = key
            /\ \A j \in 1..(k - 1) : kvps[j].key # key
    ELSE 0

\* Array.prototype.find over trait nodes: the first trait with this id.
FindTrait(traitRefs, id) ==
    IF \E t \in 1..Len(traitRefs) : traitRefs[t].node.id = id
    THEN CHOOSE t \in 1..Len(traitRefs) :
            /\ traitRefs[t].node.id = id
            /\ \A j \in 1..(t - 1) : traitRefs[j].node.id # id
    ELSE 0

\* One rule of a length or range trait: the rule read from the k-th pair of
\* the body, none when k is 0 (the key is absent).
MinMaxRule(ref, k, id) ==
    IF k # 0
    THEN <<[id    |-> id,
            value |-> parseInt(ref.node.body.kvps[k].value.text),
            loc   |-> KvpLoc(ref.loc, k)]>>
    ELSE <<>>

\* A faulty MinMaxRules that reads max only when min is written.
MinMaxRules_MaxUnderMin(ref, minId, maxId) ==
    IF ref.node.body.kind = "Array" /\ FindKvp(ref.node.body.kvps, S_min) # 0
    THEN MinMaxRule(ref, FindKvp(ref.node.body.kvps, S_min), minId)
         \o MinMaxRule(ref, FindKvp(ref.node.body.kvps, S_max), maxId)
    ELSE <<>>

\* The rules of a length or range trait: one for min and one for max when
\* the body is a list of key/value pairs that has the key.
MinMaxRules(ref, minId, maxId) ==
    IF ref.node.body.kind = "Array"
    THEN MinMaxRule(ref, FindKvp(ref.node.body.kvps, S_min), minId)
         \o MinMaxRule(ref, FindKvp(ref.node.body.kvps, S_max), maxId)
    ELSE <<>>

parseTraitToValidationRule(ref) ==
    LET node == ref.node
    IN  CASE node.id = S_required ->
               [rules |-> <<[id |-> "required"]>>, violations |-> <<>>]
          [] node.id = S_length ->
               [rules |-> MinMaxRules(ref, "string-min-length", "string-max-length"),
                violations |-> <<>>]
          [] node.id = S_pattern ->
               [rules |->
                  IF node.body.kind = "NodeStringValue" /\ node.body.text # <<>>
                  THEN <<[id |-> "string-pattern",
                          pattern |-> slice(node.body.text, 1, -1),
                          loc |-> BodyLoc(ref.loc)]>>
                  ELSE <<>>,
                violations |-> <<>>]
          [] node.id = S_range ->
               [rules |-> MinMaxRules(ref, "number-gte", "number-lte"),
                violations |-> <<>>]
          [] node.id = S_uniqueItems ->
               [rules |-> <<[id |-> "array-unique-items", loc |-> ref.loc]>>,
                violations |-> <<>>]
          [] OTHER ->
               [rules |-> <<>>,
                violations |->
                  <<Violation("@basketry-smithy/unknown-trait", "info",
                              ref.loc, node.id)>>]

\* The generator's yield*: the rules of every trait in order, and the
\* violations pushed on the way.
YieldRules(each) ==
    [rules      |-> Flatten([t \in 1..Len(each) |-> each[t].rules]),
     violations |-> Flatten([t \in 1..Len(each) |-> each[t].violations])]

parseTraitsToValidationRules(traitRefs) ==
    YieldRules([t \in 1..Len(traitRefs) |-> parseTraitToValidationRule(traitRefs[t])])

emitDeprecated(traitRefs) ==
    LET t == FindTrait(traitRefs, S_deprecated)
    IN  IF t # 0 THEN [defined |-> TRUE, loc |-> traitRefs[t].loc]
                 ELSE [defined |-> FALSE]

parseVerb(ref) ==
    LET text == ref.node.text
    IN  CASE text = S_GET     -> [verb |-> [value |-> S_get, loc |-> ref.loc], violations |-> <<>>]
          [] text = S_POST    -> [verb |-> [value |-> S_post, loc |-> ref.loc], violations |-> <<>>]
          [] text = S_PUT     -> [verb |-> [value |-> S_put, loc |-> ref.loc], violations |-> <<>>]
          [] text = S_PATCH   -> [verb |-> [value |-> S_patch, loc |-> ref.loc], violations |-> <<>>]
          [] text = S_DELETE  -> [verb |-> [value |-> S_delete, loc |-> ref.loc], violations |-> <<>>]
          [] text = S_HEAD    -> [verb |-> [value |-> S_head, loc |-> ref.loc], violations |-> <<>>]
          [] text = S_OPTIONS -> [verb |-> [value |-> S_options, loc |-> ref.loc], violations |-> <<>>]
          [] text = S_TRACE   -> [verb |-> [value |-> S_trace, loc |-> ref.loc], violations |-> <<>>]
          [] OTHER ->
               [verb |-> [value |-> S_get, loc |-> ref.loc],
                violations |->
                  <<Violation("@basketry-smithy/unsupported-http-verb", "error",
                              ref.loc, text)>>]

\* The success code of a binding without a code field.
DefaultSuccessCode == 200

parseHttpMethod(s, method, code) ==
    LET verb == parseVerb(method)
    IN  [httpMethod |->
            [name        |-> [value |-> doc[s].name, loc |-> Loc(s, "name", 0, 0)],
             successCode |-> IF code.node.kind # "undefined"
                             THEN [value |-> parseFloat(code.node.text).n, loc |-> code.loc]
                             ELSE [value |-> DefaultSuccessCode, loc |-> Loc(0, "none", 0, 0)],
             verb        |-> verb.verb],
         violations |-> verb.violations]

\* The value of the first pair with this key of the structured body of the
\* trait at traitRef, with its range; kind "undefined" when there is none.
KvpValue(traitRef, key) ==
    LET k == FindKvp(traitRef.node.body.kvps, key)
    IN  IF k = 0 THEN [node |-> NoValue, loc |-> Loc(0, "none", 0, 0)]
        ELSE [node |-> traitRef.node.body.kvps[k].value,
              loc  |-> KvpValueLoc(traitRef.loc, k)]

\* httpPath.methods.push(parsed) for the path of this uri, which is entered
\* in the map first when the map has not got it.
PushHttpMethod(acc, httpTrait, uri, parsed) ==
    LET withPath ==
          IF MapHas(acc.paths, uri.node.text) THEN acc.paths
          ELSE MapSet(acc.paths, uri.node.text,
                      [path    |-> [value |-> uri.node.text, loc |-> uri.loc],
                       methods |-> <<>>,
                       loc     |-> httpTrait.loc])
    IN  [paths |->
            MapSet(withPath, uri.node.text,
                   [MapGet(withPath, uri.node.text)
                      EXCEPT !.methods = Append(@, parsed.httpMethod)]),
         violations |-> acc.violations \o parsed.violations]

\* The turn of the loop once the three fields of the binding are read.
parseHttpFields(s, acc, httpTrait, method, uri, code) ==
    IF \/ method.node.kind # "NodeStringValue"
       \/ uri.node.kind # "NodeStringValue"
       \/ (code.node.kind # "undefined" /\ code.node.kind # "Number")
    THEN acc
    ELSE PushHttpMethod(acc, httpTrait, uri, parseHttpMethod(s, method, code))

\* The turn of the loop once the http trait is found.
parseHttpTrait(s, acc, httpTrait) ==
    IF httpTrait.node.body.kind # "Array"
    THEN acc
    ELSE parseHttpFields(s, acc, httpTrait, KvpValue(httpTrait, S_method),
                         KvpValue(httpTrait, S_uri), KvpValue(httpTrait, S_code))

\* One turn of the loop of parseHttpProtocol, for operation s: acc holds the
\* local map of paths and the violations pushed so far.
parseHttpOperation(s, acc, opTraits) ==
    IF FindTrait(opTraits, S_http) = 0
    THEN acc
    ELSE parseHttpTrait(s, acc, opTraits[FindTrait(opTraits, S_http)])

RECURSIVE parseHttpProtocolFrom(_, _, _)
\* The loop of parseHttpProtocol from its n-th turn on.
parseHttpProtocolFrom(operations, n, acc) ==
    IF n > Len(operations)
    THEN acc
    ELSE parseHttpProtocolFrom(
           operations, n + 1,
           parseHttpOperation(operations[n], acc, traits(doc[operations[n]].name)))

\* What parseHttpProtocol returns: the empty array, whatever paths it built.
HttpPathsReturned(paths) == <<>>

\* The paths the loop built, what the method returns, the violations pushed.
HttpProtocolOf(built) ==
    [http       |-> HttpPathsReturned(MapValues(built.paths)),
     paths      |-> MapValues(built.paths),
     violations |-> built.violations]

parseHttpProtocol(operations) ==
    HttpProtocolOf(
        parseHttpProtocolFrom(operations, 1, [paths |-> <<>>, violations |-> <<>>]))

NoLoc == Loc(0, "none", 0, 0)

\* An absent ShapeIdNode or SimpleTypeNameNode.
NoShapeId == [kind |-> "undefined", text |-> <<>>, loc |-> NoLoc]

\* A faulty toTypeName that passes the keyword through as the scalar.
toTypeName_Keyword(node) ==
    [typeName |-> [value |-> node.text, loc |-> node.loc], violations |-> <<>>]

toTypeName(node) ==
    LET scalar(value) == [typeName |-> [value |-> value, loc |-> node.loc],
                          violations |-> <<>>]
    IN  CASE node.text = S_string     -> scalar(S_string)
          [] node.text = S_boolean    -> scalar(S_boolean)
          [] node.text = S_integer    -> scalar(S_integer)
          [] node.text = S_long       -> scalar(S_long)
          [] node.text = S_float      -> scalar(S_float)
          [] node.text = S_short      -> scalar(S_float)
          [] node.text = S_double     -> scalar(S_double)
          [] node.text = S_blob       -> scalar(S_binary)
          [] node.text = S_byte       -> scalar(S_number)
          [] node.text = S_bigDecimal -> scalar(S_number)
          [] node.text = S_bigInteger -> scalar(S_long)
          [] node.text = S_timestamp  -> scalar(S_date_time)
          [] OTHER ->
               [typeName |-> [value |-> S_string, loc |-> node.loc],
                violations |->
                  <<Violation("@basketry-smithy/unsupported-simple-type", "error",
                              node.loc, node.text)>>]

smithyPrimitives ==
    {S_Boolean, S_String, S_Integer, S_Long, S_Float, S_Short, S_Double,
     S_Byte, S_BigInteger, S_BigDecimal, S_Timestamp, S_Blob}

isSmithyPrimitive(value) == value \in smithyPrimitives

\* A faulty toPrimitive that takes the keyword in lower case for the scalar.
toPrimitive_LowerCase(value, loc) ==
    [typeName |-> [value |-> toLowerCase(value), loc |-> loc],
     violations |->
        IF isSmithyPrimitive(value) THEN <<>>
        ELSE <<Violation("@basketry-smithy/unknown-primitive", "error", loc, value)>>]

toPrimitive(value, loc) ==
    LET scalar(v) == [typeName |-> [value |-> v, loc |-> loc], violations |-> <<>>]
    IN  CASE value = S_Boolean    -> scalar(S_boolean)
          [] value = S_String     -> scalar(S_string)
          [] value = S_Integer    -> scalar(S_number)
          [] value = S_Long       -> scalar(S_long)
          [] value = S_Float      -> scalar(S_float)
          [] value = S_Short      -> scalar(S_float)
          [] value = S_Double     -> scalar(S_double)
          [] value = S_Byte       -> scalar(S_integer)
          [] value = S_BigInteger -> scalar(S_long)
          [] value = S_BigDecimal -> scalar(S_double)
          [] value = S_Timestamp  -> scalar(S_date_time)
          [] value = S_Blob       -> scalar(S_binary)
          [] OTHER ->
               [typeName |-> [value |-> value, loc |-> loc],
                violations |->
                  <<Violation("@basketry-smithy/unknown-primitive", "error",
                              loc, value)>>]

\* The ShapeIdNode of a member node, absent for an elided member.
MemberShapeId(ref) ==
    IF ref.node.kind = "ExplicitShapeMember"
    THEN [kind |-> "ShapeId", text |-> ref.node.shapeId,
          loc  |-> Loc(ref.s, "memberShapeId", ref.m, 0)]
    ELSE NoShapeId

\* list.members[0] of a list without members is undefined, and reading its
\* member property throws a TypeError.
ListMemberThrows(list) == Len(doc[list].members) = 0

\* A faulty parseListMember that leaves out the traits of the list's member.
parseListMember_WithoutMemberTraits(list, listMember, memberShapeId) ==
    [isArray |-> TRUE,
     inheritedTraits |-> traits(doc[list].name),
     shapeId |-> memberShapeId,
     violations |->
        IF memberShapeId.kind # "undefined" THEN <<>>
        ELSE <<Violation("@basketry-smithy/missing-list-member", "error",
                         Loc(list, "shape", 0, 0), <<>>)>>,
     threw |-> FALSE]

\* The list branch of parseMemberType once list.members[0] is read: the
\* element type and the traits the member inherits.
parseListMember(list, listMember, memberShapeId) ==
    IF memberShapeId.kind # "undefined"
    THEN [isArray |-> TRUE,
          inheritedTraits |-> traits(doc[list].name) \o MemberTraits(listMember),
          shapeId |-> memberShapeId,
          violations |-> <<>>, threw |-> FALSE]
    ELSE [isArray |-> TRUE,
          inheritedTraits |-> traits(doc[list].name),
          shapeId |-> NoShapeId,
          violations |->
            <<Violation("@basketry-smithy/missing-list-member", "error",
                        Loc(list, "shape", 0, 0), <<>>)>>,
          threw |-> FALSE]

\* A faulty parseMemberType that looks the simple shape up before the list.
parseMemberType_SimpleShapeFirst(ref) ==
    LET shapeId     == MemberShapeId(ref)
        list        == MapGet(index.listsIndex, shapeId.text)
        simpleShape == MapGet(index.simpleShapesIndex, shapeId.text)
    IN  IF shapeId.kind = "undefined"
        THEN [isArray |-> FALSE, inheritedTraits |-> <<>>, shapeId |-> NoShapeId,
              violations |->
                <<Violation("@basketry-smithy/unexpected-elision", "error",
                            Loc(ref.s, "memberNode", ref.m, 0), <<>>)>>,
              threw |-> FALSE]
        ELSE IF simpleShape # Undefined
        THEN [isArray |-> FALSE,
              inheritedTraits |-> traits(doc[simpleShape].name),
              shapeId |-> [kind |-> "SimpleTypeName",
                           text |-> doc[simpleShape].typeName,
                           loc  |-> Loc(simpleShape, "typeName", 0, 0)],
              violations |-> <<>>, threw |-> FALSE]
        ELSE IF list # Undefined
        THEN IF ListMemberThrows(list)
             THEN [isArray |-> FALSE, inheritedTraits |-> <<>>, shapeId |-> NoShapeId,
                   violations |-> <<>>, threw |-> TRUE]
             ELSE parseListMember(list, ShapeMembers(list)[1],
                                  MemberShapeId(ShapeMembers(list)[1]))
        ELSE [isArray |-> FALSE, inheritedTraits |-> <<>>, shapeId |-> shapeId,
              violations |-> <<>>, threw |-> FALSE]

parseMemberType(ref) ==
    LET shapeId     == MemberShapeId(ref)
        list        == MapGet(index.listsIndex, shapeId.text)
        simpleShape == MapGet(index.simpleShapesIndex, shapeId.text)
    IN  IF shapeId.kind = "undefined"
        THEN [isArray |-> FALSE, inheritedTraits |-> <<>>, shapeId |-> NoShapeId,
              violations |->
                <<Violation("@basketry-smithy/unexpected-elision", "error",
                            Loc(ref.s, "memberNode", ref.m, 0), <<>>)>>,
              threw |-> FALSE]
        ELSE IF list # Undefined
        THEN IF ListMemberThrows(list)
             THEN [isArray |-> FALSE, inheritedTraits |-> <<>>, shapeId |-> NoShapeId,
                   violations |-> <<>>, threw |-> TRUE]
             ELSE parseListMember(list, ShapeMembers(list)[1],
                                  MemberShapeId(ShapeMembers(list)[1]))
        ELSE IF simpleShape # Undefined
        THEN [isArray |-> FALSE,
              inheritedTraits |-> traits(doc[simpleShape].name),
              shapeId |-> [kind |-> "SimpleTypeName",
                           text |-> doc[simpleShape].typeName,
                           loc  |-> Loc(simpleShape, "typeName", 0, 0)],
              violations |-> <<>>, threw |-> FALSE]
        ELSE [isArray |-> FALSE, inheritedTraits |-> <<>>, shapeId |-> shapeId,
              violations |-> <<>>, threw |-> FALSE]

\* A faulty MemberTypeName without the fallback to 'unknown'.
MemberTypeName_NoFallback(shapeId) ==
    IF shapeId.kind = "SimpleTypeName" THEN toTypeName(shapeId)
    ELSE IF shapeId.kind = "ShapeId" /\ isSmithyPrimitive(shapeId.text)
    THEN toPrimitive(shapeId.text, shapeId.loc)
    ELSE [typeName |-> [value |-> shapeId.text, loc |-> shapeId.loc],
          violations |-> <<>>]

\* The type name of a member whose reference resolved to shapeId.
MemberTypeName(shapeId) ==
    IF shapeId.kind = "SimpleTypeName" THEN toTypeName(shapeId)
    ELSE IF shapeId.kind = "ShapeId" /\ isSmithyPrimitive(shapeId.text)
    THEN toPrimitive(shapeId.text, shapeId.loc)
    ELSE [typeName |->
            [value |-> IF shapeId.kind = "undefined" THEN S_unknown
                                                     ELSE shapeId.text,
             loc   |-> shapeId.loc],
          violations |-> <<>>]

\* The object parseShapeMemberToMember returns, from the parts it computes.
MemberFrom(ref, resolved, rules, typeName) ==
    LET identifier == [value |-> ref.node.name,
                       loc   |-> Loc(ref.s, "memberName", ref.m, 0)]
        shapeId    == resolved.shapeId
    IN  IF resolved.threw
        THEN [member |-> [name |-> identifier], violations |-> resolved.violations,
              threw |-> TRUE]
        ELSE [member |->
                [name        |-> identifier,
                 isPrimitive |-> \/ shapeId.kind = "SimpleTypeName"
                                 \/ (shapeId.kind = "ShapeId"
                                     /\ isSmithyPrimitive(shapeId.text)),
                 isArray     |-> resolved.isArray,
                 typeName    |-> typeName.typeName,
                 loc         |-> Loc(ref.s, "member", ref.m, 0),
                 rules       |-> rules.rules],
              violations |->
                resolved.violations \o rules.violations \o typeName.violations,
              threw |-> FALSE]

\* parseShapeMemberToMember after its call of parseMemberType.
parseResolvedMember(ref, resolved) ==
    MemberFrom(ref, resolved,
               parseTraitsToValidationRules(
                   resolved.inheritedTraits \o MemberTraits(ref)),
               MemberTypeName(resolved.shapeId))

parseShapeMemberToMember(ref) == parseResolvedMember(ref, parseMemberType(ref))

\* The place of the first element whose computation threw, 0 when none did.
FirstThrow(each) ==
    IF \E m \in 1..Len(each) : each[m].threw
    THEN CHOOSE m \in 1..Len(each) :
            /\ each[m].threw
            /\ \A j \in 1..(m - 1) : ~each[j].threw
    ELSE 0

\* The violations pushed by a loop that stops at the first throw.
ViolationsUntilThrow(each) ==
    Flatten([m \in 1..(IF FirstThrow(each) # 0 THEN FirstThrow(each) ELSE Len(each))
                |-> each[m].violations])

MembersOf(each) ==
    [members    |-> IF FirstThrow(each) # 0 THEN <<>>
                    ELSE [m \in 1..Len(each) |-> each[m].member],
     violations |-> ViolationsUntilThrow(each),
     threw      |-> FirstThrow(each) # 0]

\* A faulty parseShapeMembers whose violations are pushed nowhere.
parseShapeMembers_Unreported(refs) ==
    [MembersOf([m \in 1..Len(refs) |-> parseShapeMemberToMember(refs[m])])
        EXCEPT !.violations = <<>>]

\* members.map(parseShapeMemberToMember): the members in order, up to the
\* first one whose resolution throws.
parseShapeMembers(refs) ==
    MembersOf([m \in 1..Len(refs) |-> parseShapeMemberToMember(refs[m])])

NoReturnType == [kind |-> "undefined"]

\* A faulty ReturnTypeFrom that marks the return type an array.
ReturnTypeFrom_Array(shapeId, rules) ==
    [returnType |->
        [kind |-> "ReturnType", isPrimitive |-> FALSE, isArray |-> TRUE,
         typeName |-> [value |-> shapeId.text, loc |-> shapeId.loc],
         rules |-> rules.rules],
     violations |-> rules.violations]

\* The return type of a reference to structure, with the rules of its traits.
ReturnTypeFrom(shapeId, rules) ==
    [returnType |->
        [kind |-> "ReturnType", isPrimitive |-> FALSE, isArray |-> FALSE,
         typeName |-> [value |-> shapeId.text, loc |-> shapeId.loc],
         rules |-> rules.rules],
     violations |-> rules.violations]

parseReturnType(shapeId) ==
    LET outputTraits == traits(shapeId.text)
        structure    == MapGet(index.structuresIndex, shapeId.text)
    IN  IF structure # Undefined
        THEN ReturnTypeFrom(shapeId,
                 parseTraitsToValidationRules(
                     traits(doc[structure].name) \o outputTraits))
        ELSE [returnType |-> NoReturnType,
              violations |->
                <<Violation("@basketry-smithy/unknown-return-type", "error",
                            shapeId.loc, shapeId.text)>>]

\* The violation pushed for an inline input or output shape.
InlineViolation(ref, loc) ==
    IF ref.kind = "InlineAggregateShape"
    THEN <<Violation("@basketry-smithy/unsupported-feature", "info", loc, <<>>)>>
    ELSE <<>>

\* The object emitMethod returns, from the parts it computes.
MethodFrom(s, returned, parameters) ==
    [method |->
        [name       |-> [value |-> doc[s].name, loc |-> Loc(s, "name", 0, 0)],
         deprecated |-> emitDeprecated(traits(doc[s].name)),
         parameters |-> parameters.members,
         returnType |-> returned.returnType,
         loc        |-> Loc(s, "shape", 0, 0)],
     violations |->
        InlineViolation(doc[s].input, Loc(s, "input", 0, 0))
        \o InlineViolation(doc[s].output, Loc(s, "output", 0, 0))
        \o returned.violations
        \o parameters.violations,
     threw |-> parameters.threw]

\* A faulty emitMethod that reports an input that names no structure.
emitMethod_UnknownInput(s) ==
    LET input      == doc[s].input
        inputShape == IF input.kind = "ShapeId"
                      THEN MapGet(index.structuresIndex, input.text)
                      ELSE Undefined
        output     == doc[s].output
    IN  MethodFrom(s,
            IF output.kind = "ShapeId"
            THEN parseReturnType([kind |-> "ShapeId", text |-> output.text,
                                  loc |-> Loc(s, "output", 0, 0)])
            ELSE [returnType |-> NoReturnType, violations |-> <<>>],
            IF inputShape # Undefined
            THEN parseShapeMembers(ShapeMembers(inputShape))
            ELSE [members |-> <<>>,
                  violations |->
                     IF input.kind = "ShapeId"
                     THEN <<Violation("@basketry-smithy/unknown-return-type", "error",
                                      Loc(s, "input", 0, 0), input.text)>>
                     ELSE <<>>,
                  threw |-> FALSE])

emitMethod(s) ==
    LET input      == doc[s].input
        inputShape == IF input.kind = "ShapeId"
                      THEN MapGet(index.structuresIndex, input.text)
                      ELSE Undefined
        output     == doc[s].output
    IN  MethodFrom(s,
            IF output.kind = "ShapeId"
            THEN parseReturnType([kind |-> "ShapeId", text |-> output.text,
                                  loc |-> Loc(s, "output", 0, 0)])
            ELSE [returnType |-> NoReturnType, violations |-> <<>>],
            IF inputShape # Undefined
            THEN parseShapeMembers(ShapeMembers(inputShape))
            ELSE [members |-> <<>>, violations |-> <<>>, threw |-> FALSE])

MethodsOf(each) ==
    [methods    |-> IF FirstThrow(each) # 0 THEN <<>>
                    ELSE [n \in 1..Len(each) |-> each[n].method],
     violations |-> ViolationsUntilThrow(each),
     threw      |-> FirstThrow(each) # 0]

\* Array.from(emitMethods(operations)): the methods in order, up to the first
\* one whose emission throws.
emitMethods(operations) ==
    MethodsOf([n \in 1..Len(operations) |-> emitMethod(operations[n])])

\* The value of the service's first property keyed 'operations', with the
\* place of that property; kind "undefined" when there is none.
OperationsNode(s) ==
    LET p == FindKvp(doc[s].properties, S_operations)
    IN  IF p = 0 THEN [node |-> NoValue, p |-> 0]
        ELSE [node |-> doc[s].properties[p].value, p |-> p]

\* A faulty OperationNotDefined that reports the range of the whole listing:
\* the diagnostic's range depends on the item.
OperationNotDefined_ListingRange(s, p, j, text) ==
    Violation("@basketry-smithy/operation-not-defined", "error",
              Loc(s, "item", p, 0), text)

\* The violation pushed for the j-th item of the listing at property p of
\* service s, which names no operation.
OperationNotDefined(s, p, j, text) ==
    Violation("@basketry-smithy/operation-not-defined", "error",
              Loc(s, "item", p, j), text)

\* The loop over the items of the operations array: the operations found, in
\* listing order, and a violation for each item that names none.
ListedOperations(s) ==
    LET operationsNode == OperationsNode(s)
        items == IF operationsNode.node.kind = "NodeArray"
                 THEN operationsNode.node.items ELSE <<>>
        isName(j) == items[j].kind = "NodeStringValue"
        found(j)  == MapGet(index.operationsIndex, items[j].text)
    IN  [operations |->
            Flatten([j \in 1..Len(items) |->
                IF isName(j) /\ found(j) # Undefined THEN <<found(j)>> ELSE <<>>]),
         violations |->
            Flatten([j \in 1..Len(items) |->
                IF isName(j) /\ found(j) = Undefined
                THEN <<OperationNotDefined(s, operationsNode.p, j, items[j].text)>>
                ELSE <<>>])]

\* A faulty InterfaceName that tests the suffix without lowering the case:
\* the naming of interfaces depends on the lowering.
InterfaceName_CaseSensitive(text) ==
    IF endsWith(text, S_service)
    THEN slice(text, 0, 0 - Len(S_service))
    ELSE text

\* The interface name: the identifier without a trailing "service", whatever
\* its case.
InterfaceName(text) ==
    IF endsWith(toLowerCase(text), S_service)
    THEN slice(text, 0, 0 - Len(S_service))
    ELSE text

\* The object emitInterface returns, from the parts it computes.
InterfaceFrom(s, listed, http, methods) ==
    [interface |->
        [name      |-> [value |-> InterfaceName(doc[s].name),
                        loc   |-> Loc(s, "name", 0, 0)],
         protocols |-> [http |-> http.http],
         methods   |-> methods.methods],
     violations |-> listed.violations \o http.violations \o methods.violations,
     threw |-> methods.threw]

\* emitInterface after the loop over the listing.
emitListed(s, listed) ==
    InterfaceFrom(s, listed, parseHttpProtocol(listed.operations),
                  emitMethods(listed.operations))

emitInterface(s) == emitListed(s, ListedOperations(s))

\* The object emitStructure returns, from the properties it computes.
StructureFrom(s, properties) ==
    [type |->
        [name       |-> [value |-> doc[s].name, loc |-> Loc(s, "name", 0, 0)],
         properties |-> properties.members,
         deprecated |-> emitDeprecated(traits(doc[s].name)),
         rules      |-> <<>>],
     violations |-> properties.violations,
     threw |-> properties.threw]

emitStructure(s) == StructureFrom(s, parseShapeMembers(ShapeMembers(s)))

\* emitEnum, were every value given the deprecation of the enum itself.
emitEnum_ShapeDeprecated(s) ==
    [name       |-> [value |-> doc[s].name, loc |-> Loc(s, "name", 0, 0)],
     deprecated |-> emitDeprecated(traits(doc[s].name)),
     values     |->
        [m \in 1..Len(doc[s].members) |->
            [content    |-> [value |-> doc[s].members[m].name,
                             loc   |-> Loc(s, "memberName", m, 0)],
             deprecated |-> emitDeprecated(traits(doc[s].name))]]]

emitEnum(s) ==
    [name       |-> [value |-> doc[s].name, loc |-> Loc(s, "name", 0, 0)],
     deprecated |-> emitDeprecated(traits(doc[s].name)),
     values     |->
        [m \in 1..Len(doc[s].members) |->
            [content    |-> [value |-> doc[s].members[m].name,
                             loc   |-> Loc(s, "memberName", m, 0)],
             deprecated |-> emitDeprecated(MemberTraits(ShapeMembers(s)[m]))]]]

-----------------------------------------------------------------------------
(* The documents the model resolves.                                       *)

N_TaskService == <<"T","a","s","k","S","e","r","v","i","c","e">>

N_Widgets == <<"W","i","d","g","e","t","s">>

N_CreateTask == <<"C","r","e","a","t","e","T","a","s","k">>

N_ListTasks == <<"L","i","s","t","T","a","s","k","s">>

N_CreateTaskInput == <<"C","r","e","a","t","e","T","a","s","k","I","n","p","u","t">>

N_CreateTaskOutput == <<"C","r","e","a","t","e","T","a","s","k","O","u","t","p","u","t">>

N_TaskList == <<"T","a","s","k","L","i","s","t">>

N_Task == <<"T","a","s","k">>

N_Title == <<"T","i","t","l","e">>

N_Status == <<"S","t","a","t","u","s">>

N_title == <<"t","i","t","l","e">>

N_description == <<"d","e","s","c","r","i","p","t","i","o","n">>

N_task == <<"t","a","s","k">>

N_tasks == <<"t","a","s","k","s">>

N_member == <<"m","e","m","b","e","r">>

N_OLD == <<"O","L","D">>

N_NEW == <<"N","E","W">>

N_restJson1 == <<"r","e","s","t","J","s","o","n","1">>

N_documentation == <<"d","o","c","u","m","e","n","t","a","t","i","o","n">>

N_version == <<"v","e","r","s","i","o","n">>

N_tasksUri == <<"/","t","a","s","k","s">>

N_titlePattern == <<"^","a","$">>

N_n201 == <<"2","0","1">>

N_n1 == <<"1">>

N_n10 == <<"1","0">>

N_n7 == <<"7">>

N_CONNECT == <<"C","O","N","N","E","C","T">>

N_TASKSERVICE == <<"T","A","S","K","S","E","R","V","I","C","E">>

N_Service == <<"S","e","r","v","i","c","e">>

N_Services == <<"S","e","r","v","i","c","e","s">>

N_TaskServiceV2 == <<"T","a","s","k","S","e","r","v","i","c","e","V","2">>


\* The longest pooled document, in statements.
MaxShapes == 3

\* The largest number written in a trait body.
MaxNumber == 11

RECURSIVE NatText(_)
\* The decimal digits of a natural number, as the document writes it.
NatText(n) ==
    IF n < 10 THEN <<Digits[n + 1]>>
    ELSE NatText(n \div 10) \o <<Digits[(n % 10) + 1]>>

\* An integer literal: a minus sign for a negative number, then its digits.
IntText(n) == IF n < 0 THEN <<"-">> \o NatText(0 - n) ELSE NatText(n)

ShapeStatement(traitNodes, kind, typeName, name, members) ==
    Statement(traitNodes, kind, typeName, name, members, <<>>, NoRef, NoRef)

EnumShapeMember(traitNodes, name) ==
    [traits |-> traitNodes, kind |-> "EnumShapeMember", name |-> name, shapeId |-> <<>>]

\* @restJson1 service TaskService {
\*     version: "2024-09-22", operations: [CreateTask, ListTasks] }
TaskServiceShape ==
    Statement(<<Trait(N_restJson1, NoValue)>>, "EntityShape", S_service, N_TaskService,
              <<>>,
              <<Kvp(N_version, QuotedTextValue(N_n201)),
                Kvp(S_operations,
                    NodeArrayValue(<<ShapeIdValue(N_CreateTask),
                                     ShapeIdValue(N_ListTasks)>>))>>,
              NoRef, NoRef)

\* service Widgets { operations: [ListTasks, 7] }
WidgetsShape ==
    Statement(<<>>, "EntityShape", S_service, N_Widgets, <<>>,
              <<Kvp(S_operations,
                    NodeArrayValue(<<ShapeIdValue(N_ListTasks), NumberValue(N_n7)>>))>>,
              NoRef, NoRef)

\* @http(method: "POST", uri: "/tasks", code: 201)
\* operation CreateTask { input: CreateTaskInput output: CreateTaskOutput }
CreateTaskShape ==
    Statement(<<Trait(S_http,
                      TraitStructure(<<Kvp(S_method, QuotedTextValue(S_POST)),
                                       Kvp(S_uri, QuotedTextValue(N_tasksUri)),
                                       Kvp(S_code, NumberValue(N_n201))>>))>>,
              "OperationShape", <<>>, N_CreateTask, <<>>, <<>>,
              ShapeIdRef(N_CreateTaskInput), ShapeIdRef(N_CreateTaskOutput))

\* @deprecated @http(method: GET, uri: "/tasks")
\* operation ListTasks { input := { } output: TaskList }
ListTasksShape ==
    Statement(<<Trait(S_deprecated, NoValue),
                Trait(S_http,
                      TraitStructure(<<Kvp(S_method, ShapeIdValue(S_GET)),
                                       Kvp(S_uri, QuotedTextValue(N_tasksUri))>>))>>,
              "OperationShape", <<>>, N_ListTasks, <<>>, <<>>,
              InlineRef, ShapeIdRef(N_TaskList))

\* structure CreateTaskInput {
\*     @required title: Title
\*     tasks: TaskList
\*     @documentation description: String }
CreateTaskInputShape ==
    ShapeStatement(<<>>, "AggregateShape", S_structure, N_CreateTaskInput,
        <<ExplicitShapeMember(<<Trait(S_required, NoValue)>>, N_title, N_Title),
          ExplicitShapeMember(<<>>, N_tasks, N_TaskList),
          ExplicitShapeMember(<<Trait(N_documentation, NoValue)>>,
                              N_description, S_String)>>)

\* @deprecated structure CreateTaskOutput { @required task: Task  $tasks }
CreateTaskOutputShape ==
    ShapeStatement(<<Trait(S_deprecated, NoValue)>>, "AggregateShape", S_structure,
        N_CreateTaskOutput,
        <<ExplicitShapeMember(<<Trait(S_required, NoValue)>>, N_task, N_Task),
          ElidedShapeMember(<<>>, N_tasks)>>)

\* @uniqueItems list TaskList { @length(min: 1, max: 10) member: Task }
TaskListShape ==
    ShapeStatement(<<Trait(S_uniqueItems, NoValue)>>, "AggregateShape", S_list,
        N_TaskList,
        <<ExplicitShapeMember(
            <<Trait(S_length,
                    TraitStructure(<<Kvp(S_min, NumberValue(N_n1)),
                                     Kvp(S_max, NumberValue(N_n10))>>))>>,
            N_member, N_Task)>>)

\* list TaskList { }
EmptyTaskListShape ==
    ShapeStatement(<<>>, "AggregateShape", S_list, N_TaskList, <<>>)

\* list TaskList { $member }
ElidedTaskListShape ==
    ShapeStatement(<<>>, "AggregateShape", S_list, N_TaskList,
        <<ElidedShapeMember(<<>>, N_member)>>)

\* @required structure TaskList { }
TaskListStructureShape ==
    ShapeStatement(<<Trait(S_required, NoValue)>>, "AggregateShape", S_structure,
        N_TaskList, <<>>)

\* @pattern("^a$") string Title
TitleShape ==
    ShapeStatement(<<Trait(S_pattern, QuotedTextValue(N_titlePattern))>>,
        "SimpleShape", S_string, N_Title, <<>>)

\* enum Status { @deprecated OLD  NEW }
StatusShape ==
    ShapeStatement(<<>>, "EnumShape", <<>>, N_Status,
        <<EnumShapeMember(<<Trait(S_deprecated, NoValue)>>, N_OLD),
          EnumShapeMember(<<>>, N_NEW)>>)

\* union Task { title: Title }
TaskUnionShape ==
    ShapeStatement(<<>>, "AggregateShape", S_union, N_Task,
        <<ExplicitShapeMember(<<>>, N_title, N_Title)>>)

\* map Task { }
TaskMapShape ==
    ShapeStatement(<<>>, "AggregateShape", S_map, N_Task, <<>>)

\* @deprecated resource Widgets { }
WidgetsResourceShape ==
    Statement(<<Trait(S_deprecated, NoValue)>>, "EntityShape", S_resource, N_Widgets,
              <<>>, <<>>, NoRef, NoRef)

\* apply Task @deprecated
ApplyTaskStatement ==
    ShapeStatement(<<Trait(S_deprecated, NoValue)>>, "ApplyStatementSingular", <<>>,
        N_Task, <<>>)

\* The pooled statements: a document is up to MaxShapes of them, in any order
\* and with repetition.
Pool ==
    {TaskServiceShape, WidgetsShape, CreateTaskShape, ListTasksShape,
     CreateTaskInputShape, CreateTaskOutputShape, TaskListShape,
     EmptyTaskListShape, ElidedTaskListShape, TaskListStructureShape,
     TitleShape, StatusShape}

\* Statements of the categories the resolver emits nothing for, with an enum,
\* a structure and a simple shape beside them.
CategoryPool ==
    {TaskUnionShape, TaskMapShape, WidgetsResourceShape, ApplyTaskStatement,
     StatusShape, TaskListStructureShape, TitleShape}

ServiceNames ==
    {N_TaskService, N_Widgets, N_TASKSERVICE, N_Service, N_Services, N_TaskServiceV2}

\* service <name> { }
ServiceNameDocuments ==
    {<<Statement(<<>>, "EntityShape", S_service, name, <<>>, <<>>, NoRef, NoRef)>> :
        name \in ServiceNames}

SimpleTypeNames ==
    {S_blob, S_boolean, S_document, S_string, S_byte, S_short, S_integer, S_long,
     S_float, S_double, S_bigInteger, S_bigDecimal, S_timestamp}

\* <keyword> Title, then the structure whose member title refers to it.
SimpleTypeDocuments ==
    {<<ShapeStatement(<<>>, "SimpleShape", keyword, N_Title, <<>>),
       CreateTaskInputShape>> : keyword \in SimpleTypeNames}

HttpVerbs ==
    {S_GET, S_POST, S_PUT, S_PATCH, S_DELETE, S_HEAD, S_OPTIONS, S_TRACE}

\* The method field of an http trait: a known verb quoted or bare, a verb in
\* lower case, an unknown verb.
MethodValues ==
    {QuotedTextValue(verb) : verb \in HttpVerbs}
    \cup {ShapeIdValue(verb) : verb \in HttpVerbs \cup {S_get, N_CONNECT}}
    \cup {QuotedTextValue(N_CONNECT), NumberValue(N_n7)}

\* @http(method: <value>, uri: "/tasks") operation CreateTask { }, then the
\* service that lists it.
HttpVerbDocuments ==
    {<<Statement(<<Trait(S_http,
                         TraitStructure(<<Kvp(S_method, value),
                                          Kvp(S_uri, QuotedTextValue(N_tasksUri))>>))>>,
                 "OperationShape", <<>>, N_CreateTask, <<>>, <<>>, NoRef, NoRef),
       TaskServiceShape>> : value \in MethodValues}

\* structure Task { title: string  description: String }
KeywordMembersShape ==
    ShapeStatement(<<>>, "AggregateShape", S_structure, N_Task,
        <<ExplicitShapeMember(<<>>, N_title, S_string),
          ExplicitShapeMember(<<>>, N_description, S_String)>>)

\* list <name> { member: <element> }
ListNamed(name, element) ==
    ShapeStatement(<<>>, "AggregateShape", S_list, name,
        <<ExplicitShapeMember(<<>>, N_member, element)>>)

\* integer <name>
IntegerNamed(name) == ShapeStatement(<<>>, "SimpleShape", S_integer, name, <<>>)

\* The structure alone, then followed by a list, by a simple shape, or by
\* both, declared under the keyword one of its members refers to.
KeywordDocuments ==
    {<<KeywordMembersShape>>}
    \cup {<<KeywordMembersShape, ListNamed(name, element)>> :
             name \in {S_string, S_String}, element \in {N_Task, S_String}}
    \cup {<<KeywordMembersShape, IntegerNamed(name)>> : name \in {S_string, S_String}}
    \cup {<<KeywordMembersShape, IntegerNamed(S_String), ListNamed(S_String, N_Task)>>}

\* structure ListTasks { }
ListTasksStructureShape ==
    ShapeStatement(<<>>, "AggregateShape", S_structure, N_ListTasks, <<>>)

\* The service, the operation it lists, and a structure declared under the
\* operation's identifier, after the operation and before it.
ShadowedOperationDocuments ==
    {<<WidgetsShape, ListTasksShape, ListTasksStructureShape>>,
     <<WidgetsShape, ListTasksStructureShape, ListTasksShape>>}

\* The service, the operation it lists, and a list declared under the
\* identifier the operation's input names.
ListInputDocuments ==
    {<<TaskServiceShape, CreateTaskShape, ListNamed(N_CreateTaskInput, N_Task)>>}

\* service Widgets { operations: [CreateTask] }
WidgetsCreateShape ==
    Statement(<<>>, "EntityShape", S_service, N_Widgets, <<>>,
              <<Kvp(S_operations, NodeArrayValue(<<ShapeIdValue(N_CreateTask)>>))>>,
              NoRef, NoRef)

\* Two services that list the operation, the operation, its input structure.
TwoListingsDocuments ==
    {<<WidgetsCreateShape, TaskServiceShape, CreateTaskShape, CreateTaskInputShape>>}

\* structure CreateTaskInput { $tasks }
ElidedInputShape ==
    ShapeStatement(<<>>, "AggregateShape", S_structure, N_CreateTaskInput,
        <<ElidedShapeMember(<<>>, N_tasks)>>)

\* A service, the operation it lists and its input structure, with a list
\* whose member is elided, with a simple shape of an unsupported type, or
\* with an elided member of its own.
ListedInputDocuments ==
    {<<TaskServiceShape, CreateTaskShape, CreateTaskInputShape, ElidedTaskListShape>>,
     <<TaskServiceShape, CreateTaskShape, CreateTaskInputShape,
       ShapeStatement(<<>>, "SimpleShape", S_document, N_Title, <<>>)>>,
     <<TaskServiceShape, CreateTaskShape, ElidedInputShape>>}

\* doc is one of the documents the model resolves.
IsDocument(d) ==
    \/ \E n \in 0..MaxShapes : d \in [1..n -> Pool]
    \/ \E n \in 0..MaxShapes : d \in [1..n -> CategoryPool]
    \/ d \in ServiceNameDocuments
    \/ d \in SimpleTypeDocuments
    \/ d \in HttpVerbDocuments
    \/ d \in KeywordDocuments
    \/ d \in ShadowedOperationDocuments
    \/ d \in ListInputDocuments
    \/ d \in TwoListingsDocuments
    \/ d \in ListedInputDocuments

-----------------------------------------------------------------------------
(* One run of smithyParser(schema, sourcePath).                            *)

NoResult == [returned |-> FALSE]

NoCall == [fn |-> "none", done |-> FALSE]

\* No call of smithyParser came before this one.
NoPrevious == [calls |-> 0]

\* The module of the tree builder is loaded and parse has not been called.
BuilderIdle ==
    /\ records = <<>>
    /\ callbacks = <<>>
    /\ stack = <<>>
    /\ roots = <<>>
    /\ nodes = <<>>
    /\ active = 0
    /\ trees = <<>>

Init ==
    /\ IsDocument(doc)
    /\ pc = "run"
    /\ cursor = 1
    /\ index = EmptyIndex
    /\ violations = <<>>
    /\ interfaces = <<>>
    /\ types = <<>>
    /\ enums = <<>>
    /\ result = NoResult
    /\ call = NoCall
    /\ previous = NoPrevious
    /\ BuilderIdle

\* The SmithyIndex constructor, were it to return after the first statement.
Indexed_AfterFirst == cursor > Min(1, Len(doc))

\* The SmithyIndex constructor has returned.
Indexed == cursor > Len(doc)

\* One turn of the loop of indexShapeSection.
IndexShape ==
    /\ pc = "run"
    /\ ~Indexed
    /\ index' = indexShape(index, cursor, doc[cursor])
    /\ cursor' = cursor + 1
    /\ UNCHANGED <<doc, pc, violations, interfaces, types, enums, result, call>>
    /\ UNCHANGED <<previous, builderVars>>

\* One turn of the loop of emitInterfaces: the next service of the table.
EmitInterface ==
    /\ pc = "run"
    /\ Indexed
    /\ Len(interfaces) < Len(index.servicesIndex)
    /\ LET emitted == emitInterface(MapValues(index.servicesIndex)[Len(interfaces) + 1])
       IN  /\ violations' = violations \o emitted.violations
           /\ IF emitted.threw
              THEN pc' = "threw" /\ UNCHANGED interfaces
              ELSE pc' = pc /\ interfaces' = Append(interfaces, emitted.interface)
    /\ UNCHANGED <<doc, cursor, index, types, enums, result, call>>
    /\ UNCHANGED <<previous, builderVars>>

\* One turn of the loop of emitTypes: the next structure of the table.
EmitStructure ==
    /\ pc = "run"
    /\ Indexed
    /\ Len(interfaces) = Len(index.servicesIndex)
    /\ Len(types) < Len(index.structuresIndex)
    /\ LET emitted == emitStructure(MapValues(index.structuresIndex)[Len(types) + 1])
       IN  /\ violations' = violations \o emitted.violations
           /\ IF emitted.threw
              THEN pc' = "threw" /\ UNCHANGED types
              ELSE pc' = pc /\ types' = Append(types, emitted.type)
    /\ UNCHANGED <<doc, cursor, index, interfaces, enums, result, call>>
    /\ UNCHANGED <<previous, builderVars>>

\* One turn of the loop of emitEnums: the next enum of the table.
EmitEnum ==
    /\ pc = "run"
    /\ Indexed
    /\ Len(interfaces) = Len(index.servicesIndex)
    /\ Len(types) = Len(index.structuresIndex)
    /\ Len(enums) < Len(index.enumsIndex)
    /\ enums' = Append(enums, emitEnum(MapValues(index.enumsIndex)[Len(enums) + 1]))
    /\ UNCHANGED <<doc, pc, cursor, index, violations, interfaces, types, result, call>>
    /\ UNCHANGED <<previous, builderVars>>

\* SmithyParser.parse returns the service and the violations.
Return ==
    /\ pc = "run"
    /\ Indexed
    /\ Len(interfaces) = Len(index.servicesIndex)
    /\ Len(types) = Len(index.structuresIndex)
    /\ Len(enums) = Len(index.enumsIndex)
    /\ result' = [returned   |-> TRUE,
                  service    |-> [interfaces |-> interfaces, types |-> types,
                                  enums |-> enums, unions |-> <<>>],
                  violations |-> violations]
    /\ pc' = "done"
    /\ UNCHANGED <<doc, cursor, index, violations, interfaces, types, enums, call>>
    /\ UNCHANGED <<previous, builderVars>>

Next == IndexShape \/ EmitInterface \/ EmitStructure \/ EmitEnum \/ Return

Spec == Init /\ [][Next]_vars

-----------------------------------------------------------------------------
(* The pure functions of the resolver, each applied to one input.          *)

\* The numbers written as the min and max of a length or range trait.
Numbers == (0 - 1)..MaxNumber

\* A field that is absent, or present with one of the numbers.
OptionalNumbers == {<<>>} \cup {<<n>> : n \in Numbers}

\* The key/value pairs of a body that writes these min and max fields.
MinMaxKvps(min, max, maxFirst) ==
    LET minKvps == IF min = <<>> THEN <<>>
                   ELSE <<Kvp(S_min, NumberValue(IntText(min[1])))>>
        maxKvps == IF max = <<>> THEN <<>>
                   ELSE <<Kvp(S_max, NumberValue(IntText(max[1])))>>
    IN  IF maxFirst THEN maxKvps \o minKvps ELSE minKvps \o maxKvps

TraitIds ==
    {S_required, S_length, S_pattern, S_range, S_uniqueItems, S_deprecated,
     S_http, N_documentation}

\* The regular expressions written between the quotes of a pattern trait.
Patterns == {<<>>, N_titlePattern, N_tasksUri}

\* The values passed to toPrimitive: the wrapper keywords and some others.
PrimitiveInputs ==
    smithyPrimitives \cup {S_string, S_integer, S_document, S_unknown, N_Task, <<>>}

\* A call of parseTraitToValidationRule about to be made.
IsTraitCall(c) ==
    \E id \in TraitIds :
        \/ \E min \in OptionalNumbers, max \in OptionalNumbers, maxFirst \in BOOLEAN :
              c = [fn |-> "parseTraitToValidationRule", done |-> FALSE,
                   trait |-> Trait(id, TraitStructure(MinMaxKvps(min, max, maxFirst))),
                   min |-> min, max |-> max, pattern |-> <<>>]
        \/ \E pattern \in Patterns :
              c = [fn |-> "parseTraitToValidationRule", done |-> FALSE,
                   trait |-> Trait(id, QuotedTextValue(pattern)),
                   min |-> <<>>, max |-> <<>>, pattern |-> pattern]
        \/ c = [fn |-> "parseTraitToValidationRule", done |-> FALSE,
                trait |-> Trait(id, NoValue),
                min |-> <<>>, max |-> <<>>, pattern |-> <<>>]

\* A call of toPrimitive about to be made.
IsPrimitiveCall(c) ==
    \E value \in PrimitiveInputs :
        c = [fn |-> "toPrimitive", done |-> FALSE, value |-> value]

\* A call of parseShapeMemberToMember about to be made, for a member of a
\* document whose index holds no shape of the member's type.
IsMemberCall(c) ==
    \E value \in PrimitiveInputs \ {<<>>} :
        c = [fn |-> "parseShapeMemberToMember", done |-> FALSE,
             node |-> ExplicitShapeMember(<<>>, N_title, value)]

\* The kinds of the children of a node, and a kind no child has.
ChildKinds == {"Identifier", "TraitStatements"}

RequestedKinds == ChildKinds \cup {"ShapeMembers"}

MaxChildren == 3

\* The children arrays of a tree node: up to MaxChildren nodes of these kinds,
\* each at an offset of its own.
ChildrenArrays ==
    UNION {{[c \in 1..n |-> [kind |-> kinds[c], offset |-> c - 1, length |-> 1]] :
               kinds \in [1..n -> ChildKinds]} : n \in 0..MaxChildren}

\* Array.prototype.find, were it to return the last element that matches.
zeroOrOneAst_Last(children, kind) ==
    LET found == {c \in 1..Len(children) : children[c].kind = kind}
    IN  IF found = {} THEN [kind |-> "undefined"]
        ELSE children[CHOOSE c \in found : \A d \in found : d <= c]

\* SyntaxNode.zeroOrOneAst: children.find, the first child of the kind or
\* undefined.
zeroOrOneAst(children, kind) ==
    LET found == {c \in 1..Len(children) : children[c].kind = kind}
    IN  IF found = {} THEN [kind |-> "undefined"]
        ELSE children[CHOOSE c \in found : \A d \in found : c <= d]

\* What oneAst does with the child zeroOrOneAst found.
RequiredChild(astNode) ==
    IF astNode.kind = "undefined"
    THEN [threw |-> TRUE, node |-> astNode]
    ELSE [threw |-> FALSE, node |-> astNode]

\* SyntaxNode.oneAst: the child, or a thrown Error.
oneAst(children, kind) == RequiredChild(zeroOrOneAst(children, kind))

\* children.filter: the elements that match, in the order of the array.
RECURSIVE filter(_, _)
filter(children, kind) ==
    IF children = <<>> THEN <<>>
    ELSE (IF children[1].kind = kind THEN <<children[1]>> ELSE <<>>)
         \o filter(SubSeq(children, 2, Len(children)), kind)

\* SyntaxNode.manyAst
manyAst(children, kind) == filter(children, kind)

\* The line feed character.
LF == "\n"

MaxText == 3

\* The documents whose ranges are computed: up to MaxText characters, each a
\* letter or a line feed.
Texts == UNION {[1..n -> {"a", LF}] : n \in 0..MaxText}

\* String.prototype.split on the line feed: the lines, without the feeds.
RECURSIVE split(_)
split(input) ==
    IF \A k \in 1..Len(input) : input[k] # LF THEN <<input>>
    ELSE LET feed == CHOOSE k \in 1..Len(input) :
                        input[k] = LF /\ \A j \in 1..(k - 1) : input[j] # LF
         IN  <<SubSeq(input, 1, feed - 1)>>
             \o split(SubSeq(input, feed + 1, Len(input)))

\* The loop of getRowAndColumn from line i on, cumulativeLength characters
\* before it.
RECURSIVE ScanLines(_, _, _, _)
ScanLines(lines, offset, i, cumulativeLength) ==
    IF i > Len(lines)
    THEN [row |-> Len(lines), column |-> Len(lines[Len(lines)]) + 1]
    ELSE IF offset < cumulativeLength + Len(lines[i]) + 1
    THEN [row |-> i, column |-> offset - cumulativeLength + 1]
    ELSE ScanLines(lines, offset, i + 1, cumulativeLength + Len(lines[i]) + 1)

\* getRowAndColumn, were the column the distance from the start of the line.
getRowAndColumn_ZeroBased(input, offset) ==
    IF offset < 0 \/ offset > Len(input)
    THEN [threw |-> TRUE]
    ELSE [threw |-> FALSE,
          at |-> [ScanLines(split(input), offset, 1, 0) EXCEPT !.column = @ - 1]]

\* getRowAndColumn: throws when the offset is out of bounds.
getRowAndColumn(input, offset) ==
    IF offset < 0 \/ offset > Len(input)
    THEN [threw |-> TRUE]
    ELSE [threw |-> FALSE, at |-> ScanLines(split(input), offset, 1, 0)]

\* The object SyntaxNode.range returns, from the two positions.
RangeFrom(node, start, end) ==
    IF start.threw \/ end.threw
    THEN [threw |-> TRUE]
    ELSE [threw |-> FALSE,
          range |->
            [start |-> [line |-> start.at.row, column |-> start.at.column,
                        offset |-> node.offset],
             end   |-> [line |-> end.at.row, column |-> end.at.column,
                        offset |-> node.offset + node.length]]]

\* SyntaxNode.range
SyntaxNodeRange(document, node) ==
    RangeFrom(node, getRowAndColumn(document, node.offset),
              getRowAndColumn(document, node.offset + node.length))

\* A read of the range of a node about to be made: the node lies in the
\* document or sticks out of it by one character.
IsRangeCall(c) ==
    \E document \in Texts, offset \in (0 - 1)..(MaxText + 1), length \in 0..(MaxText + 1) :
        /\ offset <= Len(document) + 1
        /\ offset + length <= Len(document) + 1
        /\ c = [fn |-> "range", done |-> FALSE, document |-> document,
                node |-> [offset |-> offset, length |-> length]]

\* A call of one of the accessors of the facade about to be made.
IsAccessorCall(c) ==
    \E fn \in {"oneAst", "zeroOrOneAst", "manyAst"},
       children \in ChildrenArrays, kind \in RequestedKinds :
        c = [fn |-> fn, done |-> FALSE, children |-> children, kind |-> kind]

FnInit ==
    /\ doc = <<>>
    /\ pc = "fn"
    /\ cursor = 1
    /\ index = EmptyIndex
    /\ violations = <<>>
    /\ interfaces = <<>>
    /\ types = <<>>
    /\ enums = <<>>
    /\ result = NoResult
    /\ \/ IsTraitCall(call)
       \/ IsPrimitiveCall(call)
       \/ IsMemberCall(call)
       \/ IsAccessorCall(call)
       \/ IsRangeCall(call)
    /\ previous = NoPrevious
    /\ BuilderIdle

\* The call returns: what it returned, and the violations it pushed.
Returned(returned, pushed) ==
    /\ call' = [call EXCEPT !.done = TRUE] @@ [returned |-> returned]
    /\ violations' = violations \o pushed
    /\ pc' = "returned"
    /\ UNCHANGED <<doc, cursor, index, interfaces, types, enums, result>>
    /\ UNCHANGED <<previous, builderVars>>

TraitReturned(translated) == Returned(translated.rules, translated.violations)

ApplyParseTraitToValidationRule ==
    /\ pc = "fn"
    /\ call.fn = "parseTraitToValidationRule"
    /\ TraitReturned(parseTraitToValidationRule(
           [node |-> call.trait, loc |-> Loc(1, "trait", 1, 0)]))

PrimitiveReturned(mapped) == Returned(mapped.typeName, mapped.violations)

ApplyToPrimitive ==
    /\ pc = "fn"
    /\ call.fn = "toPrimitive"
    /\ PrimitiveReturned(toPrimitive(call.value, Loc(1, "memberShapeId", 1, 0)))

MemberReturned(parsed) == Returned(parsed.member, parsed.violations)

ApplyParseShapeMemberToMember ==
    /\ pc = "fn"
    /\ call.fn = "parseShapeMemberToMember"
    /\ MemberReturned(parseShapeMemberToMember([node |-> call.node, s |-> 1, m |-> 1]))

\* The call throws: nothing is returned and nothing is pushed.
Thrown ==
    /\ call' = [call EXCEPT !.done = TRUE]
    /\ pc' = "threw"
    /\ UNCHANGED <<doc, cursor, index, violations, interfaces, types, enums, result>>
    /\ UNCHANGED <<previous, builderVars>>

RequiredReturned(found) ==
    IF found.threw THEN Thrown ELSE Returned(found.node, <<>>)

ApplyOneAst ==
    /\ pc = "fn"
    /\ call.fn = "oneAst"
    /\ RequiredReturned(oneAst(call.children, call.kind))

ApplyZeroOrOneAst ==
    /\ pc = "fn"
    /\ call.fn = "zeroOrOneAst"
    /\ Returned(zeroOrOneAst(call.children, call.kind), <<>>)

ApplyManyAst ==
    /\ pc = "fn"
    /\ call.fn = "manyAst"
    /\ Returned(manyAst(call.children, call.kind), <<>>)

RangeReturned(computed) ==
    IF computed.threw THEN Thrown ELSE Returned(computed.range, <<>>)

ApplyRange ==
    /\ pc = "fn"
    /\ call.fn = "range"
    /\ RangeReturned(SyntaxNodeRange(call.document, call.node))

FnNext ==
    \/ ApplyParseTraitToValidationRule
    \/ ApplyToPrimitive
    \/ ApplyParseShapeMemberToMember
    \/ ApplyOneAst
    \/ ApplyZeroOrOneAst
    \/ ApplyManyAst
    \/ ApplyRange

FnSpec == FnInit /\ [][FnNext]_vars

-----------------------------------------------------------------------------
(* Properties of a run, read from the document and from what was emitted.  *)

Statements == 1..Len(doc)

IsService(s) == doc[s].kind = "EntityShape" /\ doc[s].typeName = S_service

IsOperation(s) == doc[s].kind = "OperationShape"

IsStructure(s) == doc[s].kind = "AggregateShape" /\ doc[s].typeName = S_structure

IsList(s) == doc[s].kind = "AggregateShape" /\ doc[s].typeName = S_list

IsSimpleShape(s) == doc[s].kind = "SimpleShape"

\* The last statement of S declared under this name, 0 when there is none.
LastNamed(S, name) ==
    IF \E s \in S : doc[s].name = name
    THEN CHOOSE s \in S :
            /\ doc[s].name = name
            /\ \A t \in S : doc[t].name = name => t <= s
    ELSE 0

Range(seq) == {seq[n] : n \in 1..Len(seq)}

\* The number of violations pushed with this code.
CountCode(code) ==
    Cardinality({v \in 1..Len(violations) : violations[v].code = code})

\* The number of violations pushed with this code and this range.
CountViolations(code, range) ==
    Cardinality({v \in 1..Len(violations) :
                    violations[v].code = code /\ violations[v].range = range})

\* The places <<i, k>> of the methods emitted so far.
EmittedMethods ==
    UNION {{<<i, k>> : k \in 1..Len(interfaces[i].methods)} :
              i \in 1..Len(interfaces)}

MethodAt(e) == interfaces[e[1]].methods[e[2]]

\* The number of methods emitted for operation statement t.
MethodsFor(t) == Cardinality({e \in EmittedMethods : MethodAt(e).loc.stmt = t})

\* The places <<k, m>> of the properties emitted so far.
EmittedProperties ==
    UNION {{<<k, m>> : m \in 1..Len(types[k].properties)} : k \in 1..Len(types)}

PropertyAt(e) == types[e[1]].properties[e[2]]

\* The places <<i, k, m>> of the parameters emitted so far.
EmittedParameters ==
    UNION {{<<e[1], e[2], m>> : m \in 1..Len(MethodAt(e).parameters)} :
              e \in EmittedMethods}

ParameterAt(e) == interfaces[e[1]].methods[e[2]].parameters[e[3]]

\* The member node an emitted member was made from, found by its range.
SourceMember(member) == doc[member.loc.stmt].members[member.loc.a]

\* The list a member node refers to: the last list declared under the
\* identifier the member names, 0 when there is none.
ListOf(node) ==
    IF node.kind = "ExplicitShapeMember"
    THEN LastNamed({s \in Statements : IsList(s)}, node.shapeId)
    ELSE 0

\* The simple shape a member node refers to, when no list takes its place.
AliasOf(node) ==
    IF node.kind = "ExplicitShapeMember" /\ ListOf(node) = 0
    THEN LastNamed({s \in Statements : IsSimpleShape(s)}, node.shapeId)
    ELSE 0

\* The number of emitted properties and parameters whose member node has P.
CountMembers(P(_)) ==
    Cardinality({e \in EmittedProperties : P(SourceMember(PropertyAt(e)))})
    + Cardinality({e \in EmittedParameters : P(SourceMember(ParameterAt(e)))})

SameLetter(a, b) ==
    a = b \/ \E n \in 1..Len(UpperAlpha) : {a, b} = {UpperAlpha[n], LowerAlpha[n]}

\* t ends with the letters of "service", in either case.
HasServiceSuffix(t) ==
    /\ Len(t) >= Len(S_service)
    /\ \A k \in 1..Len(S_service) :
          SameLetter(t[Len(t) - Len(S_service) + k], S_service[k])

\* name is t without its "service" suffix when it has one, t otherwise.
NamedBy(name, t) ==
    IF HasServiceSuffix(t)
    THEN /\ Len(name) = Len(t) - Len(S_service)
         /\ \A k \in 1..Len(name) : name[k] = t[k]
    ELSE name = t

\* C1, as stated: the returned model has as many interfaces as the document
\* declares service shapes, each named by a service's identifier without its
\* case-insensitive "Service" suffix.
C1_InterfacePerDeclaration ==
    result.returned =>
        /\ Len(result.service.interfaces)
             = Cardinality({s \in Statements : IsService(s)})
        /\ \A i \in 1..Len(result.service.interfaces) :
              \E s \in Statements :
                 /\ IsService(s)
                 /\ NamedBy(result.service.interfaces[i].name.value, doc[s].name)

\* C1, amended: the returned model has as many interfaces as the document
\* declares distinct service identifiers, one per identifier, each named by
\* the identifier without its case-insensitive "Service" suffix.
C1_InterfacePerIdentifier ==
    result.returned =>
        /\ Len(result.service.interfaces)
             = Cardinality({doc[s].name : s \in {t \in Statements : IsService(t)}})
        /\ \A i \in 1..Len(result.service.interfaces) :
              \E s \in Statements :
                 /\ IsService(s)
                 /\ result.service.interfaces[i].name.loc.stmt = s
                 /\ NamedBy(result.service.interfaces[i].name.value, doc[s].name)
        /\ \A s \in Statements :
              IsService(s) =>
                 \E i \in 1..Len(result.service.interfaces) :
                    NamedBy(result.service.interfaces[i].name.value, doc[s].name)

\* A model is returned for a document of two services, one of them with the
\* suffix.
C1_Witness ==
    /\ result.returned
    /\ Len(result.service.interfaces) = 2
    /\ \E s \in Statements : IsService(s) /\ HasServiceSuffix(doc[s].name)
    /\ \E s \in Statements : IsService(s) /\ ~HasServiceSuffix(doc[s].name)

\* C2: for every item of a service's operations array that is an identifier,
\* the interface has a method of that name when the document declares the
\* operation, and otherwise has none and exactly one operation-not-defined
\* error was pushed with the range of that item.
C2_ListedOperations ==
    \A i \in 1..Len(interfaces) :
       LET s       == interfaces[i].name.loc.stmt
           listing == OperationsNode(s)
       IN  listing.node.kind = "NodeArray" =>
             \A j \in 1..Len(listing.node.items) :
                listing.node.items[j].kind = "NodeStringValue" =>
                   IF \E t \in Statements :
                         IsOperation(t) /\ doc[t].name = listing.node.items[j].text
                   THEN /\ \E k \in 1..Len(interfaces[i].methods) :
                              interfaces[i].methods[k].name.value
                                 = listing.node.items[j].text
                        /\ CountViolations("@basketry-smithy/operation-not-defined",
                                           Loc(s, "item", listing.p, j)) = 0
                   ELSE /\ \A k \in 1..Len(interfaces[i].methods) :
                              interfaces[i].methods[k].name.value
                                 # listing.node.items[j].text
                        /\ CountViolations("@basketry-smithy/operation-not-defined",
                                           Loc(s, "item", listing.p, j)) = 1
                        /\ \A v \in 1..Len(violations) :
                              violations[v].range = Loc(s, "item", listing.p, j)
                                 => /\ violations[v].severity = "error"
                                    /\ violations[v].message
                                          = listing.node.items[j].text

\* An interface is emitted for a listing with one declared operation and one
\* that is not.
C2_Witness ==
    \E i \in 1..Len(interfaces) :
       /\ Len(interfaces[i].methods) = 1
       /\ CountCode("@basketry-smithy/operation-not-defined") = 1
       /\ Len(OperationsNode(interfaces[i].name.loc.stmt).node.items) = 2

\* The string a literal writes: what stands between the quotes of a quoted
\* literal, the text itself of a bare one.
StringOf(text) ==
    IF Len(text) >= 2 /\ text[1] = DQUOTE /\ text[Len(text)] = DQUOTE
    THEN SubSeq(text, 2, Len(text) - 1)
    ELSE text

\* The http trait written on operation statement t, with its range; 0 when
\* the operation has none.
HttpTraitOf(t) == FindTrait(StatementTraits(t), S_http)

\* Operation statement t has a well-formed http binding: a structured body
\* with a method string, a uri string, and a code that is absent or a number.
HasHttpBinding(t) ==
    /\ HttpTraitOf(t) # 0
    /\ doc[t].traits[HttpTraitOf(t)].body.kind = "Array"
    /\ KvpValue(StatementTraits(t)[HttpTraitOf(t)], S_method).node.kind
          = "NodeStringValue"
    /\ KvpValue(StatementTraits(t)[HttpTraitOf(t)], S_uri).node.kind
          = "NodeStringValue"
    /\ KvpValue(StatementTraits(t)[HttpTraitOf(t)], S_code).node.kind
          \in {"undefined", "Number"}

\* A field of the binding of operation statement t.
BindingField(t, key) == KvpValue(StatementTraits(t)[HttpTraitOf(t)], key)

\* The uris of the bindings of the operations included in interface i.
BoundUris(i) ==
    {StringOf(BindingField(interfaces[i].methods[k].loc.stmt, S_uri).node.text) :
        k \in {n \in 1..Len(interfaces[i].methods) :
                  HasHttpBinding(interfaces[i].methods[n].loc.stmt)}}

\* C3, as stated: the http paths of an interface hold one HttpPath per
\* distinct uri among the well-formed bindings of its operations, and under
\* that path one HttpMethod per bound operation, with the operation's name
\* and its success code: the code field when given, 200 when absent.
C3_HttpPaths ==
    \A i \in 1..Len(interfaces) :
       /\ Len(interfaces[i].protocols.http) = Cardinality(BoundUris(i))
       /\ \A k \in 1..Len(interfaces[i].methods) :
             LET t == interfaces[i].methods[k].loc.stmt
             IN  HasHttpBinding(t) =>
                   \E q \in 1..Len(interfaces[i].protocols.http) :
                      LET httpPath == interfaces[i].protocols.http[q]
                      IN  /\ httpPath.path.value
                                = StringOf(BindingField(t, S_uri).node.text)
                          /\ \E e \in 1..Len(httpPath.methods) :
                                /\ httpPath.methods[e].name.value = doc[t].name
                                /\ IF BindingField(t, S_code).node.kind = "Number"
                                   THEN IntText(httpPath.methods[e].successCode.value)
                                           = BindingField(t, S_code).node.text
                                   ELSE httpPath.methods[e].successCode.value = 200

\* An interface is emitted that includes CreateTask, bound to /tasks with
\* code 201, and its http paths are empty.
C3_Witness ==
    \E e \in EmittedMethods :
       /\ HasHttpBinding(MethodAt(e).loc.stmt)
       /\ MethodAt(e).name.value = N_CreateTask
       /\ BindingField(MethodAt(e).loc.stmt, S_uri).node.text
             = <<DQUOTE>> \o N_tasksUri \o <<DQUOTE>>
       /\ BindingField(MethodAt(e).loc.stmt, S_code).node.text = N_n201
       /\ interfaces[e[1]].protocols.http = <<>>

\* C4, as stated: a binding whose method literal writes one of GET, POST,
\* PUT, PATCH, DELETE, HEAD, OPTIONS, TRACE resolves to that verb in lower
\* case and pushes no violation; any other method string resolves to get and
\* pushes exactly one unsupported-http-verb error, once for every interface
\* that includes the operation.
C4_Verbs ==
    pc # "threw" =>
       \A e \in EmittedMethods :
          LET t == MethodAt(e).loc.stmt
          IN  HasHttpBinding(t) =>
                IF StringOf(BindingField(t, S_method).node.text) \in HttpVerbs
                THEN /\ parseVerb(BindingField(t, S_method)).verb.value
                           = toLowerCase(StringOf(BindingField(t, S_method).node.text))
                     /\ CountViolations("@basketry-smithy/unsupported-http-verb",
                                        BindingField(t, S_method).loc) = 0
                ELSE /\ parseVerb(BindingField(t, S_method)).verb.value = S_get
                     /\ CountViolations("@basketry-smithy/unsupported-http-verb",
                                        BindingField(t, S_method).loc)
                           = MethodsFor(t)

\* An interface is emitted that includes an operation bound with
\* method: "POST", and the unsupported-http-verb error was pushed for it.
C4_Witness ==
    \E e \in EmittedMethods :
       /\ HasHttpBinding(MethodAt(e).loc.stmt)
       /\ BindingField(MethodAt(e).loc.stmt, S_method).node.text
             = <<DQUOTE>> \o S_POST \o <<DQUOTE>>
       /\ CountViolations("@basketry-smithy/unsupported-http-verb",
                          BindingField(MethodAt(e).loc.stmt, S_method).loc) = 1
       /\ parseVerb(BindingField(MethodAt(e).loc.stmt, S_method)).verb.value = S_get

\* C5: for every emitted method whose operation's output is a named shape
\* reference, the return type is non-primitive, non-array and named by the
\* identifier when the document declares a structure of that name; otherwise
\* the return type is absent and one unknown-return-type error was pushed for
\* each emission of the method.
C5_ReturnTypes ==
    pc # "threw" =>
       \A e \in EmittedMethods :
          LET t == MethodAt(e).loc.stmt
          IN  doc[t].output.kind = "ShapeId" =>
                IF \E u \in Statements :
                      IsStructure(u) /\ doc[u].name = doc[t].output.text
                THEN /\ MethodAt(e).returnType.kind = "ReturnType"
                     /\ ~MethodAt(e).returnType.isPrimitive
                     /\ ~MethodAt(e).returnType.isArray
                     /\ MethodAt(e).returnType.typeName.value = doc[t].output.text
                     /\ CountViolations("@basketry-smithy/unknown-return-type",
                                        Loc(t, "output", 0, 0)) = 0
                ELSE /\ MethodAt(e).returnType.kind = "undefined"
                     /\ CountViolations("@basketry-smithy/unknown-return-type",
                                        Loc(t, "output", 0, 0)) = MethodsFor(t)
                     /\ \A v \in 1..Len(violations) :
                           violations[v].range = Loc(t, "output", 0, 0)
                              /\ violations[v].code
                                    = "@basketry-smithy/unknown-return-type"
                              => violations[v].severity = "error"

\* A method is emitted whose output names no structure: its return type is
\* absent and the error is there.
C5_Witness ==
    /\ pc # "threw"
    /\ \E e \in EmittedMethods :
          /\ doc[MethodAt(e).loc.stmt].output.kind = "ShapeId"
          /\ MethodAt(e).returnType.kind = "undefined"
          /\ CountCode("@basketry-smithy/unknown-return-type") >= 1

\* The set of rules translated from these traits.
RulesOf(traitRefs) == Range(parseTraitsToValidationRules(traitRefs).rules)

\* The member node refers to a list whose sole member refers to a shape.
RefersToListOfShape(node) ==
    /\ ListOf(node) # 0
    /\ Len(doc[ListOf(node)].members) = 1
    /\ doc[ListOf(node)].members[1].kind = "ExplicitShapeMember"

\* The traits the trait table records under the identifier of statement l:
\* those of the last statement declared under that identifier.
TraitsRecordedFor(l) == StatementTraits(LastNamed(Statements, doc[l].name))

\* Property e is an array of the list's element type T, and its rules are
\* those of listTraits, of the list's member and of the referring member.
IsArrayOfElement(e, listTraits) ==
    LET property == PropertyAt(e)
        l        == ListOf(SourceMember(property))
        T        == doc[l].members[1].shapeId
    IN  /\ property.isArray
        /\ ~isSmithyPrimitive(T) => property.typeName.value = T
        /\ Range(property.rules)
             = RulesOf(listTraits)
               \cup RulesOf(MemberTraits(ShapeMembers(l)[1]))
               \cup RulesOf(MemberTraits(
                       ShapeMembers(property.loc.stmt)[property.loc.a]))

MinMaxExpected(minId, maxId) ==
    (IF call.min = <<>> THEN <<>> ELSE <<[id |-> minId, n |-> call.min[1]]>>)
    \o (IF call.max = <<>> THEN <<>> ELSE <<[id |-> maxId, n |-> call.max[1]]>>)

\* The min and max rules a call returned, by id and number.
MinMaxReturned ==
    [r \in 1..Len(call.returned) |->
        [id |-> call.returned[r].id, n |-> call.returned[r].value.n]]

SimpleTypeScalars ==
    {<<S_string, S_string>>, <<S_boolean, S_boolean>>, <<S_integer, S_integer>>,
     <<S_long, S_long>>, <<S_float, S_float>>, <<S_short, S_float>>,
     <<S_double, S_double>>, <<S_blob, S_binary>>, <<S_byte, S_number>>,
     <<S_bigDecimal, S_number>>, <<S_bigInteger, S_long>>,
     <<S_timestamp, S_date_time>>}

\* The keyword the member node resolves to through a simple shape, the empty
\* text when it does not.
KeywordOf(node) == IF AliasOf(node) # 0 THEN doc[AliasOf(node)].typeName ELSE <<>>

ResolvesToDocument(node) == KeywordOf(node) = S_document

\* An emitted member has the scalar of the keyword its node resolves to.
HasKeywordScalar(member) ==
    LET keyword == KeywordOf(SourceMember(member))
    IN  keyword # <<>> =>
          /\ member.isPrimitive
          /\ IF keyword = S_document
             THEN member.typeName.value = S_string
             ELSE \E pair \in SimpleTypeScalars :
                     pair[1] = keyword /\ member.typeName.value = pair[2]

\* C8: every emitted member whose type resolves to a simple-type keyword has
\* the scalar the table gives for the keyword, string for document; one
\* unsupported-simple-type error was pushed for each member that resolves to
\* document, and none for any other.
C8_SimpleTypes ==
    pc # "threw" =>
       /\ \A e \in EmittedProperties : HasKeywordScalar(PropertyAt(e))
       /\ \A e \in EmittedParameters : HasKeywordScalar(ParameterAt(e))
       /\ CountCode("@basketry-smithy/unsupported-simple-type")
             = CountMembers(ResolvesToDocument)
       /\ \A v \in 1..Len(violations) :
             violations[v].code = "@basketry-smithy/unsupported-simple-type"
                => violations[v].severity = "error"

\* A property is emitted whose type resolves to document: it is a string and
\* the error is there.
C8_Witness ==
    /\ pc = "done"
    /\ \E e \in EmittedProperties :
          /\ ResolvesToDocument(SourceMember(PropertyAt(e)))
          /\ PropertyAt(e).typeName.value = S_string
    /\ CountCode("@basketry-smithy/unsupported-simple-type") = 1

\* The scalar of every wrapper keyword.
WrapperScalars ==
    {<<S_Boolean, S_boolean>>, <<S_String, S_string>>, <<S_Integer, S_number>>,
     <<S_Long, S_long>>, <<S_Float, S_float>>, <<S_Short, S_float>>,
     <<S_Double, S_double>>, <<S_Byte, S_integer>>, <<S_BigInteger, S_long>>,
     <<S_BigDecimal, S_double>>, <<S_Timestamp, S_date_time>>,
     <<S_Blob, S_binary>>}

IsWrapper(value) == \E pair \in WrapperScalars : pair[1] = value

\* C9: a member whose type identifier is a wrapper keyword is primitive and
\* has the scalar the table gives for the keyword; the wrapper mapping gives
\* that scalar for a wrapper keyword, and for any other value pushes one
\* unknown-primitive error.
C9_Wrappers ==
    /\ (call.fn = "parseShapeMemberToMember" /\ call.done
          /\ IsWrapper(call.node.shapeId)) =>
          /\ call.returned.isPrimitive
          /\ \E pair \in WrapperScalars :
                /\ pair[1] = call.node.shapeId
                /\ call.returned.typeName.value = pair[2]
    /\ (call.fn = "toPrimitive" /\ call.done) =>
          IF IsWrapper(call.value)
          THEN /\ \E pair \in WrapperScalars :
                     pair[1] = call.value /\ call.returned.value = pair[2]
               /\ violations = <<>>
          ELSE /\ Len(violations) = 1
               /\ violations[1].code = "@basketry-smithy/unknown-primitive"
               /\ violations[1].severity = "error"

\* A member of type Integer has been resolved to the scalar number.
C9_Witness ==
    /\ call.fn = "parseShapeMemberToMember"
    /\ call.done
    /\ call.node.shapeId = S_Integer
    /\ call.returned.isPrimitive
    /\ call.returned.typeName.value = S_number

\* The member node refers to a list without a usable element member: a list
\* that declares no member, or whose first member is elided.
RefersToListWithoutElement(node) ==
    /\ ListOf(node) # 0
    /\ \/ Len(doc[ListOf(node)].members) = 0
       \/ doc[ListOf(node)].members[1].kind = "ElidedShapeMember"

\* C10, as stated: when a member of a structure refers to a list without a
\* usable element member, the run does not end in an exception, and the
\* model it returns holds the member as an array of unknown element type,
\* with one missing-list-member error for each such member emitted.
C10_MissingListMember ==
    \A u \in Statements :
       \A m \in 1..Len(doc[u].members) :
          (/\ IsStructure(u)
           /\ LastNamed({s \in Statements : IsStructure(s)}, doc[u].name) = u
           /\ RefersToListWithoutElement(doc[u].members[m])) =>
             /\ pc # "threw"
             /\ result.returned =>
                   /\ \E e \in EmittedProperties :
                         /\ PropertyAt(e).loc = Loc(u, "member", m, 0)
                         /\ PropertyAt(e).isArray
                         /\ PropertyAt(e).typeName.value = S_unknown
                   /\ CountCode("@basketry-smithy/missing-list-member")
                         = CountMembers(RefersToListWithoutElement)

\* The run ended in an exception while a structure's member refers to a list
\* that declares no member.
C10_Witness ==
    /\ pc = "threw"
    /\ \E u \in Statements :
          \E m \in 1..Len(doc[u].members) :
             /\ IsStructure(u)
             /\ ListOf(doc[u].members[m]) # 0
             /\ Len(doc[ListOf(doc[u].members[m])].members) = 0

-----------------------------------------------------------------------------
(* Diagnostics per defect.                                                 *)

\* The trait identifiers the resolver reads somewhere: the five it turns
\* into rules, and the two it reads for deprecation and the http binding.
ReadTraitIds ==
    {S_required, S_length, S_pattern, S_range, S_uniqueItems, S_deprecated, S_http}

\* The statements kept in a table of the index.
Kept(table) == Range(MapValues(table))

\* The places <<u, m>> of the members of the kept structures.
KeptMembers ==
    UNION {{<<u, m>> : m \in 1..Len(doc[u].members)} :
              u \in Kept(index.structuresIndex)}

\* The places <<u, m, t>> of the unknown traits written on those members.
UnknownMemberTraits ==
    UNION {{<<e[1], e[2], t>> :
               t \in {k \in 1..Len(doc[e[1]].members[e[2]].traits) :
                         doc[e[1]].members[e[2]].traits[k].id \notin ReadTraitIds}} :
              e \in KeptMembers}

\* The places <<s, t>> of the unknown traits written on the shapes whose
\* traits the index keeps.
UnknownShapeTraits ==
    UNION {{<<s, t>> : t \in {k \in 1..Len(doc[s].traits) :
                                 doc[s].traits[k].id \notin ReadTraitIds}} :
              s \in Kept(index.traitsIndex)}

\* C11, as stated: when a run returns, every elided member of a structure and
\* every unknown trait written on a member or on a shape has exactly one
\* diagnostic at its range, never zero and never more than one.
C11_OneDiagnosticPerDefect ==
    result.returned =>
        /\ \A e \in KeptMembers :
              doc[e[1]].members[e[2]].kind = "ElidedShapeMember" =>
                  CountViolations("@basketry-smithy/unexpected-elision",
                                  Loc(e[1], "memberNode", e[2], 0)) = 1
        /\ \A e \in UnknownMemberTraits :
              CountViolations("@basketry-smithy/unknown-trait",
                              Loc(e[1], "memberTrait", e[2], e[3])) = 1
        /\ \A e \in UnknownShapeTraits :
              CountViolations("@basketry-smithy/unknown-trait",
                              Loc(e[1], "trait", e[2], 0)) = 1

\* A run has returned two diagnostics for one unknown member trait: the member
\* was resolved as a parameter of a method and as a property of a type.
C11_Witness ==
    /\ result.returned
    /\ \E e \in UnknownMemberTraits :
          CountViolations("@basketry-smithy/unknown-trait",
                          Loc(e[1], "memberTrait", e[2], e[3])) = 2

-----------------------------------------------------------------------------
(* Two calls of smithyParser with the same schema and sourcePath.          *)

\* The violations field of a new SmithyParser: an empty array of its own,
\* whatever the parser of an earlier call has pushed.
NewViolations_Shared(earlier) == earlier

NewViolations(earlier) == <<>>

\* The first call is over, by return or by throw, and smithyParser is called
\* again: new SmithyParser(schema, sourcePath) builds the tree of the same
\* text, a new violations array and a new index, and parse() starts.
Again ==
    /\ pc \in {"done", "threw"}
    /\ previous = NoPrevious
    /\ previous' = [calls |-> 1, pc |-> pc, result |-> result]
    /\ pc' = "run"
    /\ cursor' = 1
    /\ index' = EmptyIndex
    /\ violations' = NewViolations(violations)
    /\ interfaces' = <<>>
    /\ types' = <<>>
    /\ enums' = <<>>
    /\ result' = NoResult
    /\ UNCHANGED <<doc, call, builderVars>>

TwiceNext == IndexShape \/ EmitInterface \/ EmitStructure \/ EmitEnum \/ Return \/ Again

TwiceSpec == Init /\ [][TwiceNext]_vars

\* The second call is over.
SecondCallOver == previous # NoPrevious /\ pc \in {"done", "threw"}

-----------------------------------------------------------------------------
(* The tree builder: parse(doc) of src/ast/parser.ts.  The grammar engine  *)
(* is held by what it hands to the callbacks: one record per rule match it *)
(* enters (SEM_PRE) and leaves (SEM_POST), with the rule and the offset of *)
(* the phrase.  A node object is held by its identity, its place in nodes. *)

\* The rules the engine matches in the streams of one call and of two: the
\* start rule, a rule under it, whitespace.
MatchedRules == {"idl", "ShapeStatement", "WS"}

\* The rules whose match the facade turns into an array, each with the rule
\* the grammar declares for its children.
DeclaredChild ==
    [ShapeStatements  |-> "ShapeOrApplyStatement",
     ShapeMembers     |-> "ShapeMember",
     EnumShapeMembers |-> "EnumShapeMember",
     TraitStatements  |-> "Trait"]

ArrayRules == DOMAIN DeclaredChild

\* Some rules of the grammar (gg.rules).
Rules ==
    MatchedRules \cup ArrayRules \cup {DeclaredChild[rule] : rule \in ArrayRules}
        \cup {"Comment"}

\* The rules the builder gives no callback.
trivia == {"WS"}

SemIds == {"SEM_PRE", "SEM_POST"}

MaxRecords == 6

MaxPairRecords == 2

\* The k-th record the engine translates: the rule it matched, whether it
\* enters or leaves the match, and the phrase.  Every record of a stream
\* gets an offset of its own.
Record(id, rule, k) == [id |-> id, rule |-> rule, offset |-> k - 1, length |-> 1]

\* No function: the entry of a trivia rule is false.
NoCallback == [fn |-> FALSE]

\* The arrow function parse makes for a rule: it closes over the stack and
\* the roots of the call that made it.
Closure(i) == [fn |-> TRUE, of |-> i]

\* The loop over gg.rules, keeping the entries that are already there.
InstallCallbacks_KeepFirst(table, i) ==
    [rule \in Rules |->
        IF rule \in DOMAIN table THEN table[rule]
        ELSE IF rule \in trivia THEN NoCallback ELSE Closure(i)]

\* The loop over gg.rules: every rule's entry of the table is assigned.
InstallCallbacks(table, i) ==
    [rule \in Rules |-> IF rule \in trivia THEN NoCallback ELSE Closure(i)]

\* A frame is what one closure reaches: the node objects, and the stack and
\* the roots of its call.
EmptyFrame == [nodes |-> <<>>, stack |-> <<>>, roots |-> <<>>]

\* parent.children.push(node), written the other way round.
PushChild_First(children, node) == <<node>> \o children

\* parent.children.push(node)
PushChild(children, node) == Append(children, node)

\* Array.prototype.pop: the array without its last element, an empty array
\* unchanged.
pop(array) == IF array = <<>> THEN <<>> ELSE SubSeq(array, 1, Len(array) - 1)

\* The callback of a non-trivia rule, called with one record.  The node made
\* for a SEM_POST record is linked nowhere and is not kept.
callback(frame, record) ==
    LET node   == Len(frame.nodes) + 1
        parent == IF frame.stack = <<>> THEN Undefined
                  ELSE frame.stack[Len(frame.stack)]
        made   == Append(frame.nodes,
                         [kind |-> record.rule, offset |-> record.offset,
                          length |-> record.length, children |-> <<>>])
    IN  IF record.id = "SEM_PRE"
        THEN [nodes |-> IF parent # Undefined
                        THEN [made EXCEPT ![parent].children = PushChild(@, node)]
                        ELSE made,
              stack |-> Append(frame.stack, node),
              roots |-> IF parent # Undefined THEN frame.roots
                        ELSE Append(frame.roots, node)]
        ELSE [frame EXCEPT !.stack = pop(@)]

\* A faulty FirstRoot that returns the root entered last.
FirstRoot_Last(frame) ==
    IF frame.roots = <<>> THEN Undefined ELSE frame.roots[Len(frame.roots)]

\* What parse returns: roots[0].
FirstRoot(frame) == IF frame.roots = <<>> THEN Undefined ELSE frame.roots[1]

\* The engine translates one record: it calls the entry of the record's rule
\* when the entry is a function.
Dispatch(table, frame, record) ==
    IF table[record.rule].fn THEN callback(frame, record) ELSE frame

NotCalled == [state |-> "none"]

\* No call of parse has been made yet; calls of them are to come.
BuilderInit(calls) ==
    /\ records = [i \in 1..calls |-> <<>>]
    /\ callbacks = <<>>
    /\ stack = [i \in 1..calls |-> <<>>]
    /\ roots = [i \in 1..calls |-> <<>>]
    /\ nodes = <<>>
    /\ active = 0
    /\ trees = [i \in 1..calls |-> NotCalled]

\* The resolver is not running.
ResolverIdle ==
    /\ doc = <<>>
    /\ pc = "parse"
    /\ cursor = 1
    /\ index = EmptyIndex
    /\ violations = <<>>
    /\ interfaces = <<>>
    /\ types = <<>>
    /\ enums = <<>>
    /\ result = NoResult
    /\ call = NoCall
    /\ previous = NoPrevious

resolverVars ==
    <<doc, pc, cursor, index, violations, interfaces, types, enums, result, call,
      previous>>

\* parse is called for the i-th document: no other call is executing, since
\* parse runs to its return without yielding.  Up to parser.parse: a new
\* stack, new roots, and the callbacks of every rule.
Install(i) ==
    /\ active = 0
    /\ trees[i] = NotCalled
    /\ active' = i
    /\ callbacks' = InstallCallbacks(callbacks, i)
    /\ stack' = [stack EXCEPT ![i] = <<>>]
    /\ roots' = [roots EXCEPT ![i] = <<>>]
    /\ trees' = [trees EXCEPT ![i] = [state |-> "called"]]
    /\ UNCHANGED <<records, nodes, resolverVars>>

\* The frame of the closure installed for a rule, this call's when the rule
\* has no function.
FrameOf(entry) ==
    LET i == IF entry.fn THEN entry.of ELSE active
    IN  [nodes |-> nodes, stack |-> stack[i], roots |-> roots[i]]

\* The frame is written back to the call whose closure ran.
Written(entry, frame) ==
    LET i == IF entry.fn THEN entry.of ELSE active
    IN  /\ nodes' = frame.nodes
        /\ stack' = [stack EXCEPT ![i] = frame.stack]
        /\ roots' = [roots EXCEPT ![i] = frame.roots]

\* parser.ast.translate() reaches the next record of the executing call's
\* document: any record, as long as the document has fewer than bound.
Translate(bound) ==
    /\ active # 0
    /\ Len(records[active]) < bound
    /\ \E id \in SemIds, rule \in MatchedRules :
          LET record == Record(id, rule, Len(records[active]) + 1)
          IN  /\ records' = [records EXCEPT ![active] = Append(@, record)]
              /\ Written(callbacks[rule],
                         Dispatch(callbacks, FrameOf(callbacks[rule]), record))
    /\ UNCHANGED <<callbacks, active, trees, resolverVars>>

\* The records are exhausted and parse returns roots[0].
ReturnRoot ==
    /\ active # 0
    /\ trees' = [trees EXCEPT ![active] =
                    [state |-> "returned",
                     root  |-> FirstRoot([nodes |-> nodes, stack |-> stack[active],
                                          roots |-> roots[active]])]]
    /\ active' = 0
    /\ UNCHANGED <<records, callbacks, stack, roots, nodes, resolverVars>>

HasReturned(i) == trees[i].state = "returned"

\* One call of parse.
BuildInit == ResolverIdle /\ BuilderInit(1)

BuildNext == Install(1) \/ Translate(MaxRecords) \/ ReturnRoot

BuildSpec == BuildInit /\ [][BuildNext]_vars

\* Two calls of parse, one after the other in either order.
PairInit == ResolverIdle /\ BuilderInit(2)

PairNext == (\E i \in 1..2 : Install(i)) \/ Translate(MaxPairRecords) \/ ReturnRoot

PairSpec == PairInit /\ [][PairNext]_vars

-----------------------------------------------------------------------------
(* The facade's arrays: the static from functions that turn the children   *)
(* of a tree node into syntax nodes.                                       *)

\* new <class>(child, document): the syntax node holds the tree node.
Wrap(class, node) == [class |-> class, node |-> node]

FromReturned(returned) == [returned |-> returned, threw |-> FALSE]

FromThrown == [returned |-> <<>>, threw |-> TRUE]

\* node.children.map((child) => new ShapeMemberNode(child, document))
ShapeMembersNode_from(heap, node) ==
    FromReturned([c \in 1..Len(heap[node].children) |->
                     Wrap("ShapeMemberNode", heap[node].children[c])])

EnumShapeMembersNode_from(heap, node) ==
    FromReturned([c \in 1..Len(heap[node].children) |->
                     Wrap("EnumShapeMemberNode", heap[node].children[c])])

TraitStatementsNode_from(heap, node) ==
    FromReturned([c \in 1..Len(heap[node].children) |->
                     Wrap("TraitNode", heap[node].children[c])])

\* The alternation: the syntax node of the first child, an Error when there
\* is no child or the child is neither a shape nor an apply statement.
ShapeOrApplyStatementNode_from(heap, node) ==
    IF heap[node].children = <<>> THEN FromThrown
    ELSE LET child == heap[node].children[1]
         IN  CASE heap[child].kind = "ShapeStatement" ->
                    FromReturned(Wrap("ShapeStatementNode", child))
               [] heap[child].kind = "ApplyStatement" ->
                    FromReturned(Wrap("ApplyStatementNode.from", child))
               [] OTHER -> FromThrown

\* The statements of these children, an Error when one of them throws.
StatementsOf(each) ==
    IF \E c \in 1..Len(each) : each[c].threw THEN FromThrown
    ELSE FromReturned([c \in 1..Len(each) |-> each[c].returned])

\* A faulty ShapeStatementsNode.from without the filter.
ShapeStatementsNode_from_Unfiltered(heap, node) ==
    StatementsOf([c \in 1..Len(heap[node].children) |->
                     ShapeOrApplyStatementNode_from(heap, heap[node].children[c])])

\* node.children.filter(kind === 'ShapeOrApplyStatement').map(from)
ShapeStatementsNode_from(heap, node) ==
    LET kept == SelectSeq(heap[node].children,
                          LAMBDA child : heap[child].kind = "ShapeOrApplyStatement")
    IN  StatementsOf([c \in 1..Len(kept) |->
                         ShapeOrApplyStatementNode_from(heap, kept[c])])

\* The from function of the rule a tree node is a match of.
FromOf(heap, node) ==
    CASE heap[node].kind = "ShapeStatements"  -> ShapeStatementsNode_from(heap, node)
      [] heap[node].kind = "ShapeMembers"     -> ShapeMembersNode_from(heap, node)
      [] heap[node].kind = "EnumShapeMembers" -> EnumShapeMembersNode_from(heap, node)
      [] heap[node].kind = "TraitStatements"  -> TraitStatementsNode_from(heap, node)

MaxArrayRecords == 5

\* The rules matched inside a match of an array rule: the rule the grammar
\* declares there, whitespace, a comment, and a statement under the
\* alternation.
InsideRules(rule) ==
    {DeclaredChild[rule], "WS", "Comment"}
        \cup (IF rule = "ShapeStatements" THEN {"ShapeStatement"} ELSE {})

\* parser.ast.translate() reaches the next record of a document that is a
\* match of an array rule: the record that enters the match, then any
\* record of a rule matched inside it.
TranslateArray ==
    /\ active # 0
    /\ Len(records[active]) < MaxArrayRecords
    /\ \E id \in SemIds, rule \in Rules :
          LET record == Record(id, rule, Len(records[active]) + 1)
          IN  /\ IF records[active] = <<>>
                 THEN id = "SEM_PRE" /\ rule \in ArrayRules
                 ELSE rule \in InsideRules(records[active][1].rule)
              /\ records' = [records EXCEPT ![active] = Append(@, record)]
              /\ Written(callbacks[rule],
                         Dispatch(callbacks, FrameOf(callbacks[rule]), record))
    /\ UNCHANGED <<callbacks, active, trees, resolverVars>>

\* The facade calls the from function of the returned node's rule.
ApplyFrom ==
    /\ active = 0
    /\ HasReturned(1)
    /\ trees[1].root # Undefined
    /\ call = NoCall
    /\ call' = [fn |-> "from", done |-> TRUE] @@ FromOf(nodes, trees[1].root)
    /\ UNCHANGED <<doc, pc, cursor, index, violations, interfaces, types, enums,
                   result, previous, builderVars>>

\* One call of parse for a match of an array rule, then the facade's from.
ArrayInit == ResolverIdle /\ BuilderInit(1)

ArrayNext == Install(1) \/ TranslateArray \/ ReturnRoot \/ ApplyFrom

ArraySpec == ArrayInit /\ [][ArrayNext]_vars

-----------------------------------------------------------------------------
(* Properties of the tree builder.                                         *)

\* The tree under a node object, by value: kinds, offsets, lengths and the
\* trees of the children in order.
RECURSIVE TreeOf(_, _)
TreeOf(heap, node) ==
    IF node = Undefined THEN [kind |-> "undefined"]
    ELSE [kind     |-> heap[node].kind,
          offset   |-> heap[node].offset,
          length   |-> heap[node].length,
          children |-> [c \in 1..Len(heap[node].children) |->
                           TreeOf(heap, heap[node].children[c])]]

\* The frame after a call of parse, with no call before it, has translated
\* the first k of these records.
RECURSIVE AloneAfter(_, _)
AloneAfter(recs, k) ==
    IF k = 0 THEN EmptyFrame
    ELSE Dispatch(InstallCallbacks(<<>>, 1), AloneAfter(recs, k - 1), recs[k])

\* The tree a call of parse returns for these records with no call before it.
AloneTree(frame) == TreeOf(frame.nodes, FirstRoot(frame))

RECURSIVE OpenAfter(_, _)
OpenAfter(recs, k) ==
    IF k = 0 THEN [ok |-> TRUE, open |-> <<>>]
    ELSE LET before == OpenAfter(recs, k - 1)
         IN  IF ~before.ok \/ recs[k].rule \in trivia THEN before
             ELSE IF recs[k].id = "SEM_PRE"
             THEN [ok |-> TRUE, open |-> Append(before.open, k)]
             ELSE IF before.open = <<>>
                     \/ recs[before.open[Len(before.open)]].rule # recs[k].rule
             THEN [ok |-> FALSE, open |-> <<>>]
             ELSE [ok |-> TRUE, open |-> pop(before.open)]

\* Every SEM_POST record closes the match opened last, and none is left open.
Balanced(recs) ==
    LET after == OpenAfter(recs, Len(recs))
    IN  after.ok /\ after.open = <<>>

\* The places of the records that enter a match of a non-trivia rule.
Enters(recs) ==
    {k \in 1..Len(recs) : recs[k].id = "SEM_PRE" /\ recs[k].rule \notin trivia}

\* The places of the records that enter an outermost match.
Outermost(recs) == {k \in Enters(recs) : OpenAfter(recs, k - 1).open = <<>>}

\* The match that encloses the match entered at place k, 0 when none does.
Enclosing(recs, k) ==
    LET open == OpenAfter(recs, k - 1).open
    IN  IF open = <<>> THEN 0 ELSE open[Len(open)]

\* The elements of a set of numbers in ascending order.
RECURSIVE Ascending(_)
Ascending(S) ==
    IF S = {} THEN <<>>
    ELSE LET least == CHOOSE n \in S : \A m \in S : n <= m
         IN  <<least>> \o Ascending(S \ {least})

\* The kind and the offset of the records at these places, in order.
KindsAndOffsets(recs, places) ==
    [n \in 1..Len(places) |->
        [kind |-> recs[places[n]].rule, offset |-> recs[places[n]].offset]]

\* The pre-order traversal of the tree under a node object: kind and offset.
RECURSIVE PreOrder(_, _)
RECURSIVE PreOrderAll(_, _)
PreOrder(heap, node) ==
    <<[kind |-> heap[node].kind, offset |-> heap[node].offset]>>
    \o PreOrderAll(heap, heap[node].children)

PreOrderAll(heap, children) ==
    IF children = <<>> THEN <<>>
    ELSE PreOrder(heap, children[1])
         \o PreOrderAll(heap, SubSeq(children, 2, Len(children)))

\* The node object made for the record at place k: the one with its offset.
NodeOf(recs, k) == CHOOSE n \in 1..Len(nodes) : nodes[n].offset = recs[k].offset

\* The node objects made for the records at these places, in order.
NodesOf(recs, places) == [n \in 1..Len(places) |-> NodeOf(recs, places[n])]

\* The returned tree holds every entered match in pre-order, under one root.
IsTreeOfMatches(recs, root) ==
    /\ root # Undefined
    /\ PreOrder(nodes, root) = KindsAndOffsets(recs, Ascending(Enters(recs)))

\* Every node is the last child of the match that enclosed it when it was
\* entered, the stack holds the open matches, and no node is of a trivia kind.
IsLinkedByStack(recs, frame) ==
    /\ frame.stack = NodesOf(recs, OpenAfter(recs, Len(recs)).open)
    /\ frame.roots = NodesOf(recs, Ascending(Outermost(recs)))
    /\ \A k \in Enters(recs) :
          nodes[NodeOf(recs, k)].children
              = NodesOf(recs, Ascending({c \in Enters(recs) : Enclosing(recs, c) = k}))
    /\ \A n \in 1..Len(nodes) : nodes[n].kind \notin trivia

\* C15, as stated: for a balanced stream of records, the tree parse returns
\* holds in pre-order the records that enter a match of a non-trivia rule,
\* with their kinds and offsets.
C15_BalancedStream ==
    HasReturned(1) /\ Balanced(records[1]) => IsTreeOfMatches(records[1], trees[1].root)

\* C15, amended: for a balanced stream of records with one outermost match,
\* the tree parse returns holds in pre-order the records that enter a match
\* of a non-trivia rule, with their kinds and offsets; and as long as every
\* exit closes the match opened last, each node is the last child of the
\* node that was on top of the stack when it was entered, the stack holds
\* the nodes of the open matches, and no node is of a trivia kind.
C15_OneOutermostMatch ==
    /\ HasReturned(1) /\ Balanced(records[1])
           /\ Cardinality(Outermost(records[1])) = 1
       => IsTreeOfMatches(records[1], trees[1].root)
    /\ trees[1] # NotCalled /\ OpenAfter(records[1], Len(records[1])).ok
       => IsLinkedByStack(records[1],
                          [stack |-> stack[1], roots |-> roots[1]])

\* parse has returned the tree of a match with a match inside it, entered
\* after whitespace.
C15_Witness ==
    /\ HasReturned(1)
    /\ Balanced(records[1])
    /\ Cardinality(Outermost(records[1])) = 1
    /\ Len(nodes[trees[1].root].children) = 1
    /\ \E k \in 1..Len(records[1]) : records[1][k].rule \in trivia

\* C16, as stated: when the exits of the stream are not balanced with its
\* enters, parse returns no tree.
C16_UnbalancedAborts ==
    HasReturned(1) => Balanced(records[1])

\* parse has returned after an exit that arrived on an empty stack.
C16_Witness ==
    /\ HasReturned(1)
    /\ ~OpenAfter(records[1], Len(records[1])).ok
    /\ records[1][1].id = "SEM_POST"
    /\ records[1][1].rule \notin trivia

-----------------------------------------------------------------------------
(* The types, enums and unions of the returned model.                      *)

IsEnum(s) == doc[s].kind = "EnumShape"

IsUnion(s) == doc[s].kind = "AggregateShape" /\ doc[s].typeName = S_union

\* The number of elements of a returned array whose name has this range.
CountNamed(array, range) ==
    Cardinality({k \in 1..Len(array) : array[k].name.loc = range})

\* The Enum carries the identifier of every member of enum statement s, in
\* order, each with the deprecation written on that member.
CarriesMembers(enum, s) ==
    /\ Len(enum.values) = Len(doc[s].members)
    /\ \A m \in 1..Len(doc[s].members) :
          /\ enum.values[m].content.value = doc[s].members[m].name
          /\ enum.values[m].deprecated.defined
                <=> \E t \in 1..Len(doc[s].members[m].traits) :
                        doc[s].members[m].traits[t].id = S_deprecated

\* C14: in the returned model, types holds exactly one Type per structure
\* kept in the index, enums holds exactly one Enum per enum kept in the
\* index, whose values carry each member's identifier and that member's own
\* deprecated status, and unions is empty even when the document declares
\* union shapes, which the index keeps for lookup.
C14_TypesEnumsUnions ==
    result.returned =>
        /\ Len(result.service.types) = Cardinality(Kept(index.structuresIndex))
        /\ \A u \in Kept(index.structuresIndex) :
              CountNamed(result.service.types, Loc(u, "name", 0, 0)) = 1
        /\ Len(result.service.enums) = Cardinality(Kept(index.enumsIndex))
        /\ \A u \in Kept(index.enumsIndex) :
              /\ CountNamed(result.service.enums, Loc(u, "name", 0, 0)) = 1
              /\ \A k \in 1..Len(result.service.enums) :
                    result.service.enums[k].name.loc = Loc(u, "name", 0, 0)
                        => CarriesMembers(result.service.enums[k], u)
        /\ result.service.unions = <<>>
        /\ \A s \in Statements :
              IsUnion(s) =>
                  MapGet(index.unionsIndex, doc[s].name)
                      = LastNamed({t \in Statements : IsUnion(t)}, doc[s].name)

\* A run has returned a Type, an Enum with a deprecated member and one that
\* is not, and no union, for a document that declares a union.
C14_Witness ==
    /\ result.returned
    /\ Len(result.service.types) = 1
    /\ \E k \in 1..Len(result.service.enums) :
          /\ result.service.enums[k].values[1].deprecated.defined
          /\ ~result.service.enums[k].values[2].deprecated.defined
    /\ \E s \in Statements : IsUnion(s)

-----------------------------------------------------------------------------
(* The accessors of the facade.                                            *)

\* The places of the children of the requested kind.
Requested == {c \in 1..Len(call.children) : call.children[c].kind = call.kind}

\* The first child of the requested kind.
FirstRequested == call.children[CHOOSE c \in Requested : \A d \in Requested : c <= d]

\* The call is over, by return or by throw.
CallOver == call.done

\* C17: the required accessor returns the first child of the requested kind
\* when there is one and throws when there is none, and the throw ends the
\* call with no violation pushed; the optional accessor returns the first
\* child of the kind or undefined; the repeated accessor returns all the
\* children of the kind in child order.
C17_Accessors ==
    /\ call.fn = "oneAst" /\ CallOver =>
          IF Requested = {}
          THEN pc = "threw" /\ violations = <<>>
          ELSE pc = "returned" /\ call.returned = FirstRequested
    /\ call.fn = "zeroOrOneAst" /\ CallOver =>
          /\ pc = "returned"
          /\ IF Requested = {} THEN call.returned.kind = "undefined"
                               ELSE call.returned = FirstRequested
    /\ call.fn = "manyAst" /\ CallOver =>
          /\ pc = "returned"
          /\ Len(call.returned) = Cardinality(Requested)
          /\ \A n \in 1..Len(call.returned) :
                /\ \E c \in Requested : call.returned[n] = call.children[c]
                /\ n > 1 => call.returned[n - 1].offset < call.returned[n].offset

\* The required accessor has thrown on a node with children of other kinds.
C17_Witness ==
    /\ call.fn = "oneAst"
    /\ pc = "threw"
    /\ Len(call.children) = 2

-----------------------------------------------------------------------------
(* The tables of the index after the indexing pass.                        *)

CategoryTables ==
    {"operationsIndex", "servicesIndex", "resourcesIndex", "simpleShapesIndex",
     "structuresIndex", "listsIndex", "unionsIndex", "mapsIndex", "enumsIndex"}

IsApply(s) == doc[s].kind \in {"ApplyStatementBlock", "ApplyStatementSingular"}

\* The table the kind and the sub-kind of statement s determine.
TableOf(s) ==
    CASE doc[s].kind = "SimpleShape" -> "simpleShapesIndex"
      [] doc[s].kind = "EnumShape" -> "enumsIndex"
      [] doc[s].kind = "OperationShape" -> "operationsIndex"
      [] doc[s].kind = "AggregateShape" /\ doc[s].typeName = S_list -> "listsIndex"
      [] doc[s].kind = "AggregateShape" /\ doc[s].typeName = S_map -> "mapsIndex"
      [] doc[s].kind = "AggregateShape" /\ doc[s].typeName = S_union -> "unionsIndex"
      [] doc[s].kind = "AggregateShape" /\ doc[s].typeName = S_structure -> "structuresIndex"
      [] doc[s].kind = "EntityShape" /\ doc[s].typeName = S_service -> "servicesIndex"
      [] doc[s].kind = "EntityShape" /\ doc[s].typeName = S_resource -> "resourcesIndex"
      [] OTHER -> "none"

\* The category tables that hold statement s.
HeldIn(s) == {table \in CategoryTables : s \in Kept(index[table])}

\* Statement s is the last declaration of its identifier in its category.
IsLastDeclared(s) ==
    \A t \in Statements :
        t > s /\ ~IsApply(t) /\ TableOf(t) = TableOf(s) => doc[t].name # doc[s].name

\* Statement s is recorded in the table of its category, under its
\* identifier, and in no other category table.
RecordedInItsTable(s) ==
    /\ HeldIn(s) = {TableOf(s)}
    /\ MapGet(index[TableOf(s)], doc[s].name) = s

RecordedNowhere(s) ==
    /\ HeldIn(s) = {}
    /\ s \notin Kept(index.traitsIndex)

\* C18, as stated: after the indexing pass every shape statement is recorded
\* in exactly one category table, the one its kind and sub-kind determine,
\* under its identifier, and apply statements are recorded in no table.
C18_EveryStatementRecorded ==
    Indexed =>
        \A s \in Statements :
            IF IsApply(s) THEN RecordedNowhere(s) ELSE RecordedInItsTable(s)

\* C18, amended: after the indexing pass every shape statement that is the
\* last declaration of its identifier in its category is recorded in exactly
\* one category table, the one its kind and sub-kind determine, under its
\* identifier; a shape statement declared again later in its category is
\* recorded in no category table; apply statements are recorded in no table.
C18_LastDeclaredRecorded ==
    Indexed =>
        \A s \in Statements :
            IF IsApply(s) THEN RecordedNowhere(s)
            ELSE IF IsLastDeclared(s) THEN RecordedInItsTable(s)
            ELSE HeldIn(s) = {}

\* The pass has indexed a union that is declared twice and an apply
\* statement of the same identifier.
C18_Witness ==
    /\ Indexed
    /\ \E s \in Statements : IsUnion(s) /\ ~IsLastDeclared(s)
    /\ \E s \in Statements : IsApply(s)
    /\ Len(index.unionsIndex) = 1

\* The first statement that declares this identifier in the category of
\* this table.
FirstDeclared(table, name) ==
    CHOOSE s \in Statements :
        /\ ~IsApply(s) /\ TableOf(s) = table /\ doc[s].name = name
        /\ \A t \in Statements :
              ~IsApply(t) /\ TableOf(t) = table /\ doc[t].name = name => s <= t

\* C19, as stated: iterating a category yields the records kept in its table
\* in the order in which their declarations appear in the document.
C19_DeclarationOrder ==
    Indexed =>
        \A table \in CategoryTables :
            \A e \in 1..Len(index[table]), f \in 1..Len(index[table]) :
                e < f => MapValues(index[table])[e] < MapValues(index[table])[f]

\* Iterating a category yields the records in the order in which their
\* identifiers are first declared.
FirstDeclarationOrder ==
    \A table \in CategoryTables :
        \A e \in 1..Len(index[table]), f \in 1..Len(index[table]) :
            e < f => FirstDeclared(table, index[table][e].key)
                         < FirstDeclared(table, index[table][f].key)

\* C19, amended: iterating a category yields the records kept in its table
\* in the order in which their identifiers are first declared in the
\* document (a record declared again keeps the place of the first
\* declaration), and no step taken after the indexing pass modifies a table
\* of the index, so that iterating again yields the same sequence.
C19_FirstDeclarationOrder ==
    /\ [](Indexed => FirstDeclarationOrder)
    /\ [][Indexed => index' = index]_vars

\* A run has returned after iterating a table whose first record was
\* declared after its second.
C19_Witness ==
    /\ pc = "done"
    /\ Len(index.servicesIndex) = 2
    /\ MapValues(index.servicesIndex)[1] > MapValues(index.servicesIndex)[2]
    /\ Len(result.service.interfaces) = 2

\* The codes of the violations the resolver pushes: none is about an
\* identifier declared twice.
ResolverCodes ==
    {"@basketry-smithy/operation-not-defined", "@basketry-smithy/unsupported-http-verb",
     "@basketry-smithy/unsupported-feature", "@basketry-smithy/unknown-return-type",
     "@basketry-smithy/unexpected-elision", "@basketry-smithy/missing-list-member",
     "@basketry-smithy/unsupported-simple-type", "@basketry-smithy/unknown-primitive",
     "@basketry-smithy/unknown-trait"}

\* Nothing has been emitted yet: the run is in the indexing pass or has just
\* completed it.
NothingEmitted == pc = "run" /\ interfaces = <<>> /\ types = <<>> /\ enums = <<>>

\* C20: when an identifier is declared more than once in a category, the
\* lookup of the identifier in the category's table returns the statement
\* declared last; the indexing pass pushes no violation, and no violation of
\* the run has a code about the duplication.
C20_LastDeclaredWins ==
    /\ Indexed =>
          \A s \in Statements :
              ~IsApply(s) =>
                  MapGet(index[TableOf(s)], doc[s].name)
                      = LastNamed({t \in Statements :
                                      ~IsApply(t) /\ TableOf(t) = TableOf(s)},
                                  doc[s].name)
    /\ NothingEmitted => violations = <<>>
    /\ \A v \in 1..Len(violations) : violations[v].code \in ResolverCodes

\* A run has returned for a document that declares an identifier twice in
\* one category, with two different definitions.
C20_Witness ==
    /\ pc = "done"
    /\ \E s \in Statements, t \in Statements :
          /\ s < t /\ ~IsApply(s) /\ ~IsApply(t)
          /\ TableOf(s) = TableOf(t)
          /\ doc[s].name = doc[t].name
          /\ doc[s] # doc[t]

-----------------------------------------------------------------------------
(* The ranges of the facade.                                               *)

\* One plus the number of line feeds before the offset.
LineOf(document, offset) ==
    1 + Cardinality({k \in 1..offset : document[k] = LF})

\* One plus the distance of the offset from the start of its line.
ColumnOf(document, offset) ==
    1 + Cardinality({k \in 1..offset : \A j \in k..offset : document[j] # LF})

\* The node of the call lies in the document.
NodeInDocument ==
    /\ 0 <= call.node.offset
    /\ call.node.offset + call.node.length <= Len(call.document)

\* C21: for a node that lies in the document the range has the zero-based
\* offsets of the node's start and end, and for each of them the line is one
\* plus the number of line feeds before it and the column is one plus its
\* distance from the start of that line; for a node with an offset below 0
\* or an end above the length of the document, range throws.
C21_Ranges ==
    call.fn = "range" /\ CallOver =>
        IF NodeInDocument
        THEN /\ pc = "returned"
             /\ call.returned.start.offset = call.node.offset
             /\ call.returned.end.offset = call.node.offset + call.node.length
             /\ call.returned.start.line = LineOf(call.document, call.node.offset)
             /\ call.returned.start.column = ColumnOf(call.document, call.node.offset)
             /\ call.returned.end.line
                   = LineOf(call.document, call.node.offset + call.node.length)
             /\ call.returned.end.column
                   = ColumnOf(call.document, call.node.offset + call.node.length)
        ELSE pc = "threw"

\* A range has been returned for a node that starts on the second line and
\* ends at the end of the document.
C21_Witness ==
    /\ call.fn = "range"
    /\ pc = "returned"
    /\ call.returned.start.line = 2
    /\ call.returned.start.column = 1
    /\ call.node.length > 0
    /\ call.returned.end.offset = Len(call.document)

-----------------------------------------------------------------------------
(* References to shapes declared before and after the referring shape.     *)

\* The statement a reference to this identifier resolves to in a category,
\* wherever the reference stands: the last declaration, 0 when there is none.
Referent(table, name) ==
    LastNamed({t \in Statements : ~IsApply(t) /\ TableOf(t) = table}, name)

\* The statement whose traits a reference to this identifier reads.
TraitsReferent(name) == LastNamed({t \in Statements : ~IsApply(t)}, name)

\* Every listed identifier that names an operation declared anywhere in the
\* document has the method of that operation.
ListingsResolved ==
    \A i \in 1..Len(interfaces) :
       LET listing == OperationsNode(interfaces[i].name.loc.stmt)
       IN  listing.node.kind = "NodeArray" =>
             \A j \in 1..Len(listing.node.items) :
                /\ listing.node.items[j].kind = "NodeStringValue"
                /\ Referent("operationsIndex", listing.node.items[j].text) # 0
                => \E k \in 1..Len(interfaces[i].methods) :
                      interfaces[i].methods[k].loc.stmt
                         = Referent("operationsIndex", listing.node.items[j].text)

\* Every method has the members of the structure its input names, the return
\* type of the structure its output names, and the deprecation of the
\* statement its name reads the traits of, wherever they are declared.
OperationsResolved ==
    \A e \in EmittedMethods :
       LET t == MethodAt(e).loc.stmt
       IN  /\ doc[t].input.kind = "ShapeId"
              /\ Referent("structuresIndex", doc[t].input.text) # 0
              => /\ Len(MethodAt(e).parameters)
                       = Len(doc[Referent("structuresIndex", doc[t].input.text)].members)
                 /\ \A m \in 1..Len(MethodAt(e).parameters) :
                       MethodAt(e).parameters[m].loc.stmt
                          = Referent("structuresIndex", doc[t].input.text)
           /\ doc[t].output.kind = "ShapeId"
              => (MethodAt(e).returnType.kind = "ReturnType"
                     <=> Referent("structuresIndex", doc[t].output.text) # 0)
           /\ MethodAt(e).deprecated.defined
                 <=> \E n \in 1..Len(doc[TraitsReferent(doc[t].name)].traits) :
                        doc[TraitsReferent(doc[t].name)].traits[n].id = S_deprecated

\* Every emitted member that names a list declared anywhere in the document
\* is an array, and no other member is.
MembersResolved ==
    /\ \A e \in EmittedProperties :
          PropertyAt(e).isArray <=> ListOf(SourceMember(PropertyAt(e))) # 0
    /\ \A e \in EmittedParameters :
          ParameterAt(e).isArray <=> ListOf(SourceMember(ParameterAt(e))) # 0

\* A step of the resolver: something is emitted or a violation is pushed.
ResolverStep ==
    \/ violations' # violations
    \/ interfaces' # interfaces
    \/ types' # types
    \/ enums' # enums
    \/ result' # result

\* C22: the indexing pass over the whole shape section is complete before
\* the resolver takes its first step, and every reference (service to
\* operation, operation to input and output structure, member to list, name
\* to traits) resolves to the shape declared under the identifier, whether
\* that shape is declared before or after the shape that refers to it.
C22_OrderIndependent ==
    /\ [](ListingsResolved /\ OperationsResolved /\ MembersResolved)
    /\ [][ResolverStep => Indexed /\ index' = index]_vars

\* A run has returned for a document in which a service lists an operation
\* declared after it, whose input names a structure declared after both.
C22_Witness ==
    /\ result.returned
    /\ \E e \in EmittedMethods :
          /\ MethodAt(e).loc.stmt > interfaces[e[1]].name.loc.stmt
          /\ Len(MethodAt(e).parameters) > 0
          /\ MethodAt(e).parameters[1].loc.stmt > MethodAt(e).loc.stmt

-----------------------------------------------------------------------------
(* The order of the cases that decide a member's type.                     *)

\* The identifier whose kind decides the type of a member: the one the
\* member's list declares for its element when the member names a list, the
\* one the member names otherwise; <<>> when the element is elided.
TypeTarget(node) ==
    IF ListOf(node) # 0
    THEN doc[ListOf(node)].members[1].shapeId
    ELSE node.shapeId

\* The member has the type the code's order of cases gives it: an indexed
\* list first, an indexed simple shape next, then the wrapper keywords, and
\* the identifier itself, not primitive, when none applies.
TypedInOrder(member, node) ==
    /\ member.isArray <=> ListOf(node) # 0
    /\ IF AliasOf(node) # 0
       THEN /\ member.isPrimitive
            /\ member.typeName.value
                  = toTypeName([text |-> doc[AliasOf(node)].typeName,
                                loc |-> NoLoc]).typeName.value
       ELSE IF isSmithyPrimitive(TypeTarget(node))
       THEN /\ member.isPrimitive
            /\ member.typeName.value = toPrimitive(TypeTarget(node), NoLoc).typeName.value
       ELSE /\ ~member.isPrimitive
            /\ member.typeName.value
                  = IF TypeTarget(node) = <<>> THEN S_unknown ELSE TypeTarget(node)

\* The member has the type the order keyword, wrapper, list, simple alias,
\* opaque reference gives it.
TypedKeywordFirst(member, node) ==
    IF node.shapeId \in SimpleTypeNames
    THEN /\ member.isPrimitive
         /\ ~member.isArray
         /\ member.typeName.value
               = toTypeName([text |-> node.shapeId, loc |-> NoLoc]).typeName.value
    ELSE IF isSmithyPrimitive(node.shapeId)
    THEN /\ member.isPrimitive
         /\ ~member.isArray
         /\ member.typeName.value = toPrimitive(node.shapeId, NoLoc).typeName.value
    ELSE TypedInOrder(member, node)

\* P holds of every emitted property and parameter made from an explicit
\* member, and of the member node it was made from.
EveryExplicitMember(P(_, _)) ==
    /\ \A e \in EmittedProperties :
          SourceMember(PropertyAt(e)).kind = "ExplicitShapeMember"
             => P(PropertyAt(e), SourceMember(PropertyAt(e)))
    /\ \A e \in EmittedParameters :
          SourceMember(ParameterAt(e)).kind = "ExplicitShapeMember"
             => P(ParameterAt(e), SourceMember(ParameterAt(e)))

\* C23 as stated: a member that names a simple-type keyword is mapped through
\* the simple-type table and marked primitive, and the cases apply in the
\* order keyword, wrapper, list, simple alias, opaque named reference.
C23_KeywordFirst == EveryExplicitMember(TypedKeywordFirst)

\* C23: the cases that decide a member's type apply in the order indexed
\* list, indexed simple shape, wrapper keyword, opaque named reference; the
\* simple-type table is reached only through an indexed simple shape, and a
\* member that names a simple-type keyword directly is an opaque reference.
C23_IndexFirst == EveryExplicitMember(TypedInOrder)

\* A run has returned a type with a member that names the keyword string and
\* a member that names the wrapper String, for a document that declares a
\* list and a simple shape under String.
C23_Witness ==
    /\ result.returned
    /\ \E e \in EmittedProperties, f \in EmittedProperties :
          /\ SourceMember(PropertyAt(e)).shapeId = S_string
          /\ ~PropertyAt(e).isPrimitive
          /\ SourceMember(PropertyAt(f)).shapeId = S_String
          /\ PropertyAt(f).isArray
    /\ \E s \in Statements : IsSimpleShape(s) /\ doc[s].name = S_String

-----------------------------------------------------------------------------
(* Elided members.                                                         *)

\* The emitted properties and parameters made from an elided member.
ElidedProperties ==
    {e \in EmittedProperties : SourceMember(PropertyAt(e)).kind = "ElidedShapeMember"}

ElidedParameters ==
    {e \in EmittedParameters : SourceMember(ParameterAt(e)).kind = "ElidedShapeMember"}

\* The number of emitted members made from member m of statement s.
EmittedFrom(s, m) ==
    Cardinality({e \in EmittedProperties :
                    PropertyAt(e).loc.stmt = s /\ PropertyAt(e).loc.a = m})
    + Cardinality({e \in EmittedParameters :
                      ParameterAt(e).loc.stmt = s /\ ParameterAt(e).loc.a = m})

\* The member is named by the identifier it elides, is neither primitive
\* nor an array, and each of its resolutions pushed one unexpected-elision.
ElisionReported(member) ==
    /\ member.name.value = SourceMember(member).name
    /\ ~member.isPrimitive
    /\ ~member.isArray
    /\ CountViolations("@basketry-smithy/unexpected-elision",
                       Loc(member.loc.stmt, "memberNode", member.loc.a, 0))
          = EmittedFrom(member.loc.stmt, member.loc.a)
    /\ \A v \in 1..Len(violations) :
          violations[v].code = "@basketry-smithy/unexpected-elision"
             => violations[v].severity = "error"

\* The type name has no value.
AbsentTypeName(typeName) ==
    "value" \notin DOMAIN typeName \/ typeName.value = <<>>

\* C24 as stated: an elided member is named by the identifier it elides, an
\* unexpected-elision error is appended, and the emitted member has an
\* absent type name.
C24_AbsentTypeName ==
    /\ \A e \in ElidedProperties :
          ElisionReported(PropertyAt(e)) /\ AbsentTypeName(PropertyAt(e).typeName)
    /\ \A e \in ElidedParameters :
          ElisionReported(ParameterAt(e)) /\ AbsentTypeName(ParameterAt(e).typeName)

\* C24: an elided member is named by the identifier it elides, each of its
\* resolutions appends one unexpected-elision error, the run does not stop
\* for it, and the emitted member has the type name 'unknown' with no source
\* range.
C24_UnknownTypeName ==
    /\ \A e \in ElidedProperties :
          /\ ElisionReported(PropertyAt(e))
          /\ PropertyAt(e).typeName = [value |-> S_unknown, loc |-> NoLoc]
    /\ \A e \in ElidedParameters :
          /\ ElisionReported(ParameterAt(e))
          /\ ParameterAt(e).typeName = [value |-> S_unknown, loc |-> NoLoc]
    /\ pc = "threw" => \E s \in Statements : IsList(s) /\ Len(doc[s].members) = 0

\* A run has returned a type with a property made from an elided member, and
\* a type emitted after it.
C24_Witness ==
    /\ result.returned
    /\ \E e \in ElidedProperties :
          /\ PropertyAt(e).typeName.value = S_unknown
          /\ Len(types) > e[1]

-----------------------------------------------------------------------------
(* The rules of a return type.                                             *)

\* The emitted methods that have a return type.
ReturningMethods ==
    {e \in EmittedMethods : MethodAt(e).returnType.kind = "ReturnType"}

\* The traits recorded under the identifier a return type names.
ReturnedTraits(e) == traits(MethodAt(e).returnType.typeName.value)

\* The number of return types that name this identifier.
ReturnedBy(name) ==
    Cardinality({e \in ReturningMethods : MethodAt(e).returnType.typeName.value = name})

\* C25: the rule list of a return type is the translation of the traits of
\* the structure it names, each trait contributing its rules once, and each
\* unrecognized trait its unknown-trait diagnostic once.
C25_RulesOnce ==
    \A e \in ReturningMethods :
       /\ MethodAt(e).returnType.rules
             = parseTraitsToValidationRules(ReturnedTraits(e)).rules
       /\ \A t \in 1..Len(ReturnedTraits(e)) :
             parseTraitToValidationRule(ReturnedTraits(e)[t]).violations # <<>>
                => CountViolations("@basketry-smithy/unknown-trait",
                                   ReturnedTraits(e)[t].loc)
                      = ReturnedBy(MethodAt(e).returnType.typeName.value)

\* A run has returned a method whose return type names a structure with one
\* trait, @required, and carries two rules.
C25_Witness ==
    /\ result.returned
    /\ \E e \in ReturningMethods :
          /\ Len(ReturnedTraits(e)) = 1
          /\ ReturnedTraits(e)[1].node.id = S_required
          /\ Len(MethodAt(e).returnType.rules) = 2

-----------------------------------------------------------------------------
(* Matches of a non-trivia rule inside a match of a trivia rule.           *)

\* The record at place k enters a match while a match of a trivia rule,
\* entered at place j, has not been left.
InsideTrivia(recs, k) ==
    \E j \in 1..(k - 1) :
       /\ recs[j].id = "SEM_PRE"
       /\ recs[j].rule \in trivia
       /\ \A l \in (j + 1)..(k - 1) :
             ~(recs[l].id = "SEM_POST" /\ recs[l].rule = recs[j].rule)

\* Every match of a non-trivia rule entered inside a match of a trivia rule
\* has a node, and the node is a child of the nearest enclosing match of a
\* non-trivia rule.
StrayMatchesLinked(recs) ==
    \A k \in Enters(recs) :
       /\ InsideTrivia(recs, k)
       /\ OpenAfter(recs, k - 1).ok
       /\ Enclosing(recs, k) # 0
       => \E c \in 1..Len(nodes[NodeOf(recs, Enclosing(recs, k))].children) :
             nodes[NodeOf(recs, Enclosing(recs, k))].children[c] = NodeOf(recs, k)

\* The tree nodes the returned syntax nodes hold, in order.
HeldNodes(returned) == [c \in 1..Len(returned) |-> returned[c].node]

\* The children of the returned node whose statement cannot be made.
Unmakeable(children) ==
    {c \in 1..Len(children) :
        /\ nodes[children[c]].kind = "ShapeOrApplyStatement"
        /\ \/ nodes[children[c]].children = <<>>
           \/ nodes[nodes[children[c]].children[1]].kind
                 \notin {"ShapeStatement", "ApplyStatement"}}

\* ShapeStatements makes a statement of each child of the declared kind and
\* of no other child; the other three wrap every child.
FromFilters(root, children) ==
    IF nodes[root].kind = "ShapeStatements"
    THEN /\ call.threw <=> Unmakeable(children) # {}
         /\ ~call.threw =>
               /\ Len(call.returned)
                     = Cardinality({c \in 1..Len(children) :
                          nodes[children[c]].kind = "ShapeOrApplyStatement"})
               /\ \A r \in 1..Len(call.returned) :
                     \E c \in 1..Len(children) :
                        /\ nodes[children[c]].kind = "ShapeOrApplyStatement"
                        /\ nodes[children[c]].children[1] = call.returned[r].node
    ELSE /\ ~call.threw
         /\ HeldNodes(call.returned) = children

\* C26: a match of a non-trivia rule entered inside a match of a trivia rule
\* becomes a child of the nearest enclosing non-trivia node, whatever the
\* kinds the grammar declares for that node's children; ShapeStatements.from
\* leaves out the children that are not of the declared kind, and the from
\* functions of ShapeMembers, EnumShapeMembers and TraitStatements wrap every
\* child.
C26_StrayChildren ==
    /\ trees[1] # NotCalled => StrayMatchesLinked(records[1])
    /\ call.done => FromFilters(trees[1].root, nodes[trees[1].root].children)

\* The facade has wrapped a Comment, matched inside whitespace under
\* ShapeMembers, as a member.
C26_Witness ==
    /\ call.done
    /\ nodes[trees[1].root].kind = "ShapeMembers"
    /\ \E k \in Enters(records[1]) :
          /\ records[1][k].rule = "Comment"
          /\ InsideTrivia(records[1], k)
    /\ \E r \in 1..Len(call.returned) : nodes[call.returned[r].node].kind = "Comment"

-----------------------------------------------------------------------------
(* The root parse returns.                                                 *)

\* The number of nodes on the stack once the first k records are translated.
RECURSIVE DepthAfter(_, _)
DepthAfter(recs, k) ==
    IF k = 0 THEN 0
    ELSE LET before == DepthAfter(recs, k - 1)
         IN  IF recs[k].rule \in trivia THEN before
             ELSE IF recs[k].id = "SEM_PRE" THEN before + 1
             ELSE IF before = 0 THEN 0 ELSE before - 1

\* The places of the records that enter a match while the stack is empty.
TopLevel(recs) == {k \in Enters(recs) : DepthAfter(recs, k - 1) = 0}

\* The offsets of the nodes of the tree under a node object.
OffsetsUnder(heap, node) ==
    {PreOrder(heap, node)[n].offset : n \in 1..Len(PreOrder(heap, node))}

\* The root is the node of the first top-level match; the nodes of the later
\* top-level matches are among the roots, and neither they nor the nodes
\* under them are in the tree of the root.
FirstTopLevelReturned(recs, root) ==
    LET first == CHOOSE k \in TopLevel(recs) : \A j \in TopLevel(recs) : k <= j
    IN  /\ root # Undefined
        /\ nodes[root].offset = recs[first].offset
        /\ Len(roots[1]) = Cardinality(TopLevel(recs))
        /\ \A k \in TopLevel(recs) \ {first} :
              /\ \E r \in 2..Len(roots[1]) : nodes[roots[1][r]].offset = recs[k].offset
              /\ OffsetsUnder(nodes, NodeOf(recs, k)) \cap OffsetsUnder(nodes, root) = {}

\* C27: parse returns the first node entered while the stack was empty; the
\* nodes of later top-level matches are kept among the roots but are not in
\* the returned tree, they or the nodes under them; and when no match of a
\* non-trivia rule is entered parse returns undefined.
C27_FirstRootReturned ==
    HasReturned(1) =>
       IF TopLevel(records[1]) = {}
       THEN trees[1].root = Undefined /\ Enters(records[1]) = {} /\ nodes = <<>>
       ELSE FirstTopLevelReturned(records[1], trees[1].root)

\* parse has returned for a stream that enters two top-level matches, the
\* second with a match inside it.
C27_Witness ==
    /\ HasReturned(1)
    /\ Len(roots[1]) = 2
    /\ nodes[roots[1][2]].children # <<>>
    /\ trees[1].root = roots[1][1]

-----------------------------------------------------------------------------
(* The trait table is keyed by the identifier alone.                       *)

\* The identifiers declared in the document, and one that is not.
LookedUpNames == {doc[s].name : s \in Statements} \cup {N_CONNECT}

\* The earlier of two shape statements of different categories that share an
\* identifier: its own table keeps it, the trait table does not.
IsShadowed(s) ==
    /\ ~IsApply(s)
    /\ \E t \in Statements :
          /\ t > s
          /\ ~IsApply(t)
          /\ doc[t].name = doc[s].name
          /\ TableOf(t) # TableOf(s)
    /\ Referent(TableOf(s), doc[s].name) = s

\* C28: once the document is indexed, each category table holds under an
\* identifier the last shape of its category declared under it, and
\* traits(name) is the trait list of the last shape statement declared under
\* the identifier in any category, so that a shape kept in its table but
\* followed by a shape of another category with the same identifier has the
\* later shape's traits; traits(name) of an undeclared name is empty.
C28_TraitsByIdentifier ==
    Indexed =>
       /\ \A name \in LookedUpNames :
             /\ traits(name)
                   = IF TraitsReferent(name) = 0 THEN <<>>
                     ELSE StatementTraits(TraitsReferent(name))
             /\ \A table \in CategoryTables :
                   MapGet(index[table], name) = Referent(table, name)
       /\ \A s \in Statements :
             IsShadowed(s) =>
                /\ MapGet(index[TableOf(s)], doc[s].name) = s
                /\ TraitsReferent(doc[s].name) > s
       /\ \A e \in EmittedMethods :
             IsShadowed(MethodAt(e).loc.stmt) =>
                (MethodAt(e).deprecated.defined
                    <=> \E n \in 1..Len(traits(MethodAt(e).name.value)) :
                           traits(MethodAt(e).name.value)[n].node.id = S_deprecated)

\* A run has returned for a document in which a deprecated operation is kept
\* in its table and followed by a shape of another category under the same
\* identifier, and its method is not deprecated.
C28_Witness ==
    /\ result.returned
    /\ \E s \in Statements :
          /\ IsShadowed(s)
          /\ doc[s].traits # <<>>
          /\ MapGet(index[TableOf(s)], doc[s].name) = s
          /\ \A n \in 1..Len(traits(doc[s].name)) :
                traits(doc[s].name)[n].node # doc[s].traits[1]
          /\ \E e \in EmittedMethods :
                MethodAt(e).loc.stmt = s /\ ~MethodAt(e).deprecated.defined

-----------------------------------------------------------------------------
(* An input that names no structure.                                       *)

\* The emitted methods whose operation's input is a named reference that
\* names no indexed structure.
UnresolvedInputs ==
    {e \in EmittedMethods :
        /\ doc[MethodAt(e).loc.stmt].input.kind = "ShapeId"
        /\ Referent("structuresIndex", doc[MethodAt(e).loc.stmt].input.text) = 0}

\* No violation has the range of the input of operation t or names its
\* identifier.
InputUnreported(t) ==
    \A v \in 1..Len(violations) :
       /\ violations[v].range # Loc(t, "input", 0, 0)
       /\ violations[v].message # doc[t].input.text

\* C29: a method whose operation's input is a named reference that names no
\* indexed structure, undeclared or declared in another category, has no
\* parameters and no diagnostic is appended for the input, whereas an output
\* that names no indexed structure gets its unknown-return-type diagnostic.
C29_UnresolvedInputSilent ==
    pc # "threw" =>
       \A e \in UnresolvedInputs :
          LET t == MethodAt(e).loc.stmt
          IN  /\ MethodAt(e).parameters = <<>>
              /\ InputUnreported(t)
              /\ doc[t].output.kind = "ShapeId"
                 /\ Referent("structuresIndex", doc[t].output.text) = 0
                 => CountViolations("@basketry-smithy/unknown-return-type",
                                    Loc(t, "output", 0, 0)) = MethodsFor(t)

\* A run has returned a method without parameters for an operation whose
\* input names a list and whose output names nothing declared.
C29_Witness ==
    /\ result.returned
    /\ \E e \in UnresolvedInputs :
          /\ Referent("listsIndex", doc[MethodAt(e).loc.stmt].input.text) # 0
          /\ MethodAt(e).parameters = <<>>
          /\ CountViolations("@basketry-smithy/unknown-return-type",
                             Loc(MethodAt(e).loc.stmt, "output", 0, 0)) = 1

-----------------------------------------------------------------------------
(* How often a member is resolved.                                         *)

\* The listings <<i, j>> of the emitted interfaces, item j of the operations
\* array of the service of interface i, that name an operation whose input
\* names structure u.
ListingsOf(u) ==
    {l \in UNION {{<<i, j>> :
                      j \in 1..Len(OperationsNode(interfaces[i].name.loc.stmt).node.items)} :
                  i \in 1..Len(interfaces)} :
        LET item == OperationsNode(interfaces[l[1]].name.loc.stmt).node.items[l[2]]
            t    == Referent("operationsIndex", item.text)
        IN  /\ item.kind = "NodeStringValue"
            /\ t # 0
            /\ doc[t].input.kind = "ShapeId"
            /\ Referent("structuresIndex", doc[t].input.text) = u}

\* The resolutions <<u, m, r>> of the members of the kept structures: member
\* m of structure u, for the type (r = 0) and for each listing.
Resolutions ==
    UNION {{<<e[1], e[2], r>> : r \in 0..Cardinality(ListingsOf(e[1]))} :
              e \in KeptMembers}

\* The number of resolutions of the members that have P.
CountResolutions(P(_, _)) == Cardinality({x \in Resolutions : P(x[1], x[2])})

\* Member m of structure u is a property once and a parameter once for each
\* listing, and each diagnostic of its own came once per resolution.
ResolvedPerListing(u, m) ==
    LET times == 1 + Cardinality(ListingsOf(u))
        ref   == ShapeMembers(u)[m]
    IN  /\ Cardinality({e \in EmittedProperties :
                           PropertyAt(e).loc.stmt = u /\ PropertyAt(e).loc.a = m}) = 1
        /\ EmittedFrom(u, m) = times
        /\ CountViolations("@basketry-smithy/unexpected-elision",
                           Loc(u, "memberNode", m, 0))
              = IF ref.node.kind = "ElidedShapeMember" THEN times ELSE 0
        /\ \A n \in 1..Len(MemberTraits(ref)) :
              CountViolations("@basketry-smithy/unknown-trait", MemberTraits(ref)[n].loc)
                 = IF parseTraitToValidationRule(MemberTraits(ref)[n]).violations # <<>>
                   THEN times ELSE 0

\* The diagnostics of a simple shape and of a list came once per resolution
\* of a member that refers to it.
SharedPerResolution ==
    /\ \A a \in Statements :
          IsSimpleShape(a) =>
             CountViolations("@basketry-smithy/unsupported-simple-type",
                             Loc(a, "typeName", 0, 0))
                = IF toTypeName([text |-> doc[a].typeName, loc |-> NoLoc]).violations
                        # <<>>
                  THEN CountResolutions(LAMBDA u, m : AliasOf(doc[u].members[m]) = a)
                  ELSE 0
    /\ \A l \in Statements :
          IsList(l) =>
             CountViolations("@basketry-smithy/missing-list-member",
                             Loc(l, "shape", 0, 0))
                = IF doc[l].members # <<>>
                        /\ doc[l].members[1].kind = "ExplicitShapeMember"
                  THEN 0
                  ELSE CountResolutions(LAMBDA u, m : ListOf(doc[u].members[m]) = l)

\* The violations are appended to; an interface is emitted before any type,
\* and a type once every interface is.
InterfacesBeforeTypes ==
    /\ Len(violations') >= Len(violations)
    /\ SubSeq(violations', 1, Len(violations)) = violations
    /\ interfaces' # interfaces => types = <<>> /\ types' = <<>>
    /\ types' # types =>
          interfaces' = interfaces /\ Len(interfaces) = Len(index.servicesIndex)

\* C30: in a run that returns, each member of a kept structure is resolved
\* once for the type and once for each listing of an operation whose input
\* names the structure, each diagnostic it triggers is appended once per
\* resolution, and the diagnostics of the interfaces precede those of the
\* types.
C30_OncePerResolution ==
    /\ [](result.returned =>
             /\ \A e \in KeptMembers : ResolvedPerListing(e[1], e[2])
             /\ SharedPerResolution)
    /\ [][InterfacesBeforeTypes]_vars

\* A run has returned for a document in which two listings name an operation
\* whose input structure has a member with an unknown trait: the member was
\* resolved three times.
C30_Witness ==
    /\ result.returned
    /\ \E e \in KeptMembers :
          /\ Cardinality(ListingsOf(e[1])) = 2
          /\ EmittedFrom(e[1], e[2]) = 3
          /\ \E n \in 1..Len(doc[e[1]].members[e[2]].traits) :
                CountViolations("@basketry-smithy/unknown-trait",
                                Loc(e[1], "memberTrait", e[2], n)) = 3

====
